---------------------------- MODULE Spec2Model ----------------------------
(***************************************************************************)
(* Model of slack_blocksmith/message.py: the Message / Modal / HomeTab     *)
(* containers, Message.from_payload with its block / element / text-object *)
(* decoders, and build.                                                    *)
(*                                                                         *)
(* Python values are tagged records, so that values of different Python    *)
(* types can be compared:                                                  *)
(*   None  [k |-> "null"]          bool  [k |-> "bool", b |-> TRUE]         *)
(*   str   [k |-> "str", s |-> _]   int   [k |-> "num", n |-> _]            *)
(*   list  [k |-> "list", xs |-> <<...>>]                                  *)
(*   dict  [k |-> "obj", f |-> [key |-> value, ...]]                       *)
(* JSON null and Python None are the same value, as they are after         *)
(* json.loads.  Typed objects (PlainText, Section, Button, ...) are        *)
(* records [k |-> "model", cls |-> <class>, ...fields...].                 *)
(***************************************************************************)
EXTENDS Integers, Sequences, FiniteSets, TLC

VARIABLES
    payload,    \* the argument given to Message.from_payload, if it was called
    pc,         \* "start" | "ready" (a container exists) | "failed"
    self,       \* the container: [cls, blocks, f (its other fields)]
    raised,     \* the exception the last operation raised, or NoError
    built,      \* the dictionary the last operation returned, if it was build()
    decoded     \* from_payload's parsed_blocks when it returned or raised

vars == <<payload, pc, self, raised, built, decoded>>

-----------------------------------------------------------------------------
(* Python values *)

None == [k |-> "null"]
JBool(b) == [k |-> "bool", b |-> b]
JStr(s) == [k |-> "str", s |-> s]
JNum(n) == [k |-> "num", n |-> n]
JList(xs) == [k |-> "list", xs |-> xs]
JObj(f) == [k |-> "obj", f |-> f]

EmptyFcn == [x \in {} |-> None]
EmptyObj == JObj(EmptyFcn)

IsDict(v) == v.k = "obj"
IsList(v) == v.k = "list"
IsStr(v) == v.k = "str"

\* Python truthiness, as used by `if not x`
Truthy(v) ==
    CASE v.k = "null" -> FALSE
      [] v.k = "bool" -> v.b
      [] v.k = "str" -> v.s # ""
      [] v.k = "num" -> v.n # 0
      [] v.k = "list" -> Len(v.xs) > 0
      [] v.k = "obj" -> DOMAIN v.f # {}
      [] OTHER -> TRUE

\* key in d
HasKey(d, key) == key \in DOMAIN d.f

\* d.get(key) and d.get(key, default)
Get(d, key) == IF key \in DOMAIN d.f THEN d.f[key] ELSE None
GetDefault(d, key, default) == IF key \in DOMAIN d.f THEN d.f[key] ELSE default

\* the mapping f with g's keys added (f's value where both have the key)
Merge(f, g) ==
    [x \in DOMAIN f \cup DOMAIN g |-> IF x \in DOMAIN f THEN f[x] ELSE g[x]]
Single(key, v) == [x \in {key} |-> v]

\* d[key] = v on a dict under construction
Put(d, key, v) == JObj(Merge(Single(key, v), d.f))

\* d[key] = v, only when v is not None (the encoders' "omit unset fields")
PutIfSet(d, key, v) == IF v = None THEN d ELSE Put(d, key, v)

-----------------------------------------------------------------------------
(* Exceptions.  Every operation returns [ok |-> TRUE, v |-> value] or      *)
(* [ok |-> FALSE, err |-> exception].                                      *)

Ok(v) == [ok |-> TRUE, v |-> v]
Raise(exc, msg, arg) == [ok |-> FALSE, err |-> [exc |-> exc, msg |-> msg, arg |-> arg]]
ValueError(msg) == Raise("ValueError", msg, None)
ValueErrorOf(msg, arg) == Raise("ValueError", msg, arg)
\* x.get(...) on a value that is not a dict
AttributeError == Raise("AttributeError", "object has no attribute 'get'", None)
\* iterating a value that is not iterable
TypeError == Raise("TypeError", "object is not iterable", None)

NoError == [exc |-> "", msg |-> "", arg |-> None]


-----------------------------------------------------------------------------
(* json.dumps / json.loads.  A JSON text is a sequence of tokens: the       *)
(* punctuation and literals [t |-> "{"], "}", "[", "]", ":", ",", "null",   *)
(* "true", "false", string literals [t |-> "str", s |-> _], numbers         *)
(* [t |-> "num", n |-> _], and [t |-> "word", s |-> _] for any other run of *)
(* characters (which no JSON value can start with).                         *)

Tok(t) == [t |-> t]
TStr(s) == [t |-> "str", s |-> s]
TNum(n) == [t |-> "num", n |-> n]
TWord(s) == [t |-> "word", s |-> s]

RECURSIVE SetToSeq(_)
SetToSeq(S) ==
    IF S = {} THEN <<>>
    ELSE LET x == CHOOSE y \in S : TRUE IN <<x>> \o SetToSeq(S \ {x})

RECURSIVE dumps(_)
RECURSIVE dumps_items(_, _)
RECURSIVE dumps_members(_, _, _)

\* json.dumps(v) for a JSON value v
dumps(v) ==
    CASE v.k = "null" -> <<Tok("null")>>
      [] v.k = "bool" -> <<Tok(IF v.b THEN "true" ELSE "false")>>
      [] v.k = "str" -> <<TStr(v.s)>>
      [] v.k = "num" -> <<TNum(v.n)>>
      [] v.k = "list" -> <<Tok("[")>> \o dumps_items(v.xs, 1) \o <<Tok("]")>>
      [] v.k = "obj" ->
            <<Tok("{")>> \o dumps_members(v.f, SetToSeq(DOMAIN v.f), 1) \o <<Tok("}")>>

dumps_items(xs, i) ==
    IF i > Len(xs) THEN <<>>
    ELSE (IF i > 1 THEN <<Tok(",")>> ELSE <<>>) \o dumps(xs[i]) \o dumps_items(xs, i + 1)

dumps_members(f, keys, i) ==
    IF i > Len(keys) THEN <<>>
    ELSE (IF i > 1 THEN <<Tok(",")>> ELSE <<>>)
         \o <<TStr(keys[i]), Tok(":")>> \o dumps(f[keys[i]])
         \o dumps_members(f, keys, i + 1)

\* json.JSONDecodeError(msg, doc, pos)
JSONDecodeError(msg, pos) == [ok |-> FALSE, msg |-> msg, pos |-> pos]
Parsed(v, next) == [ok |-> TRUE, v |-> v, next |-> next]

At(toks, i) == IF i <= Len(toks) THEN toks[i].t ELSE "eof"

RECURSIVE scan_value(_, _)
RECURSIVE scan_array(_, _, _)
RECURSIVE scan_object(_, _, _)

\* the decoder's scan_once: the value starting at token i
scan_value(toks, i) ==
    LET t == At(toks, i) IN
    CASE t = "null" -> Parsed(None, i + 1)
      [] t = "true" -> Parsed(JBool(TRUE), i + 1)
      [] t = "false" -> Parsed(JBool(FALSE), i + 1)
      [] t = "str" -> Parsed(JStr(toks[i].s), i + 1)
      [] t = "num" -> Parsed(JNum(toks[i].n), i + 1)
      [] t = "[" ->
            IF At(toks, i + 1) = "]" THEN Parsed(JList(<<>>), i + 2)
            ELSE scan_array(toks, i + 1, <<>>)
      [] t = "{" ->
            IF At(toks, i + 1) = "}" THEN Parsed(EmptyObj, i + 2)
            ELSE scan_object(toks, i + 1, EmptyFcn)
      [] OTHER -> JSONDecodeError("Expecting value", i)

\* a scanned value followed by rest, or the scan's error
ThenScan(r, rest(_)) == IF r.ok THEN rest(r) ELSE r

\* JSONArray: an item at i, then "," or "]"
scan_array(toks, i, acc) ==
    ThenScan(scan_value(toks, i), LAMBDA item :
        IF At(toks, item.next) = "]"
        THEN Parsed(JList(Append(acc, item.v)), item.next + 1)
        ELSE IF At(toks, item.next) = ","
        THEN scan_array(toks, item.next + 1, Append(acc, item.v))
        ELSE JSONDecodeError("Expecting ',' delimiter", item.next))

\* JSONObject: a key at i, ":", a value, then "," or "}"; a repeated key
\* keeps its last value
scan_object(toks, i, acc) ==
    IF At(toks, i) # "str"
    THEN JSONDecodeError("Expecting property name enclosed in double quotes", i)
    ELSE IF At(toks, i + 1) # ":"
    THEN JSONDecodeError("Expecting ':' delimiter", i + 1)
    ELSE
    ThenScan(scan_value(toks, i + 2), LAMBDA val :
        IF At(toks, val.next) = "}"
        THEN Parsed(JObj(Merge(Single(toks[i].s, val.v), acc)), val.next + 1)
        ELSE IF At(toks, val.next) = ","
        THEN scan_object(toks, val.next + 1, Merge(Single(toks[i].s, val.v), acc))
        ELSE JSONDecodeError("Expecting ',' delimiter", val.next))

\* json.loads(s): one value, then the end of the text
loads(toks) ==
    ThenScan(scan_value(toks, 1), LAMBDA r :
        IF r.next <= Len(toks) THEN JSONDecodeError("Extra data", r.next) ELSE r)

-----------------------------------------------------------------------------
(* The typed model (blocks.py, composition.py, elements.py).  An object is *)
(* [k |-> "model", cls |-> <class>, f |-> <its fields>]; an unset optional *)
(* field holds None.  The `type` discriminator is a field of the object,   *)
(* as the tests read it (message.blocks[0].type == "header").              *)

Model(cls, f) == [k |-> "model", cls |-> cls, f |-> f]
IsModel(v) == v.k = "model"

\* PlainText.create(text, emoji) / MrkdwnText.create(text, verbatim)
PlainText_create(text, emoji) ==
    Model("PlainText", [type |-> JStr("plain_text"), text |-> text, emoji |-> emoji])
MrkdwnText_create(text, verbatim) ==
    Model("MrkdwnText", [type |-> JStr("mrkdwn"), text |-> text, verbatim |-> verbatim])

\* A `str` given where the typed model holds a text object becomes a plain
\* text object with no flag set (Header.create(text=...), Button.create(text=...),
\* Input.create(label=...), ...); None stays None.
TextOf(string) == IF string = None THEN None ELSE PlainText_create(string, None)

\* Option.create(text, value, description, url)
Option_create(text, value, description, url) ==
    Model("Option", [text |-> TextOf(text), value |-> value,
                     description |-> TextOf(description), url |-> url])

\* Button.create(text, action_id, url, value, style)
Button_create(text, action_id, url, value, style) ==
    Model("Button", [type |-> JStr("button"), text |-> TextOf(text),
                     action_id |-> action_id, url |-> url, value |-> value,
                     style |-> style])

\* <Element>.create(action_id=...) of the elements built from action_id alone
ActionElement_create(type, cls, action_id) ==
    Model(cls, [type |-> JStr(type), action_id |-> action_id])

\* <Element>.create(action_id=..., options=...): Checkboxes, RadioButtons,
\* OverflowMenu
OptionsElement_create(type, cls, action_id, options) ==
    Model(cls, [type |-> JStr(type), action_id |-> action_id, options |-> options,
                initial_options |-> None])

\* <Select>.create(action_id=..., placeholder=...)
Select_create(type, cls, action_id, placeholder) ==
    Model(cls, [type |-> JStr(type), action_id |-> action_id,
                placeholder |-> TextOf(placeholder)])

\* StaticSelect.create / MultiStaticSelect.create(action_id, placeholder, options)
StaticSelect_create(type, cls, action_id, placeholder, options) ==
    Model(cls, [type |-> JStr(type), action_id |-> action_id,
                placeholder |-> TextOf(placeholder), options |-> options])

\* elements.Image.create(image_url, alt_text)
ImageElement_create(image_url, alt_text) ==
    Model("Image", [type |-> JStr("image"), image_url |-> image_url,
                    alt_text |-> alt_text])

-----------------------------------------------------------------------------
(* Message._parse_text_object, _parse_option, _parse_element and the       *)
(* element decoders.                                                       *)

\* x = <call>; <rest using x>: the rest runs when the call returned, and the
\* exception propagates when it raised
Then(r, rest(_)) == IF r.ok THEN rest(r.v) ELSE r

\* the check on the type alone: `if not text_type`
parse_text_object_any_text(text_data) ==
    IF ~IsDict(text_data) THEN AttributeError
    ELSE
    LET text_type == Get(text_data, "type")
        text == Get(text_data, "text")
    IN
    IF ~Truthy(text_type)
    THEN ValueError("Text object must have type and text")
    ELSE IF text_type = JStr("plain_text")
    THEN Ok(PlainText_create(text, Get(text_data, "emoji")))
    ELSE IF text_type = JStr("mrkdwn")
    THEN Ok(MrkdwnText_create(text, Get(text_data, "verbatim")))
    ELSE ValueErrorOf("Unsupported text type", text_type)

\* the flags read with a default: text_data.get("emoji", False)
parse_text_object_defaulting(text_data) ==
    IF ~IsDict(text_data) THEN AttributeError
    ELSE
    LET text_type == Get(text_data, "type")
        text == Get(text_data, "text")
    IN
    IF ~Truthy(text_type) \/ ~Truthy(text)
    THEN ValueError("Text object must have type and text")
    ELSE IF text_type = JStr("plain_text")
    THEN Ok(PlainText_create(text, GetDefault(text_data, "emoji", JBool(FALSE))))
    ELSE IF text_type = JStr("mrkdwn")
    THEN Ok(MrkdwnText_create(text, GetDefault(text_data, "verbatim", JBool(FALSE))))
    ELSE ValueErrorOf("Unsupported text type", text_type)

parse_text_object(text_data) ==
    IF ~IsDict(text_data) THEN AttributeError
    ELSE
    LET text_type == Get(text_data, "type")
        text == Get(text_data, "text")
    IN
    IF ~Truthy(text_type) \/ ~Truthy(text)
    THEN ValueError("Text object must have type and text")
    ELSE IF text_type = JStr("plain_text")
    THEN Ok(PlainText_create(text, Get(text_data, "emoji")))
    ELSE IF text_type = JStr("mrkdwn")
    THEN Ok(MrkdwnText_create(text, Get(text_data, "verbatim")))
    ELSE ValueErrorOf("Unsupported text type", text_type)

\* Message._parse_text_object(d[key]) if key in d else None
parse_text_object_if_present(d, key) ==
    IF HasKey(d, key) THEN parse_text_object(d.f[key]) ELSE Ok(None)

\* x.text if x else None
TextAttr(x) == IF Truthy(x) THEN x.f.text ELSE None

\* `for x in v`: the items of a list, the characters of a str (each a str),
\* the keys of a dict; any other value is not iterable
Iter(v) ==
    CASE v.k = "list" -> Ok(v.xs)
      [] v.k = "str" -> Ok(IF v.s = "" THEN <<>> ELSE <<JStr(v.s)>>)
      [] v.k = "obj" -> Ok([i \in 1..Len(SetToSeq(DOMAIN v.f)) |->
                               JStr(SetToSeq(DOMAIN v.f)[i])])
      [] OTHER -> TypeError

\* the option made without looking at the description
parse_option_without_description(option_data) ==
    IF ~IsDict(option_data) THEN AttributeError
    ELSE
    LET text_data == Get(option_data, "text")
        value == Get(option_data, "value")
    IN
    IF ~Truthy(text_data) \/ ~Truthy(value)
    THEN ValueError("Option must have text and value")
    ELSE
    Then(parse_text_object(text_data), LAMBDA text :
    Ok(Option_create(text.f.text, value, None, Get(option_data, "url"))))

parse_option(option_data) ==
    IF ~IsDict(option_data) THEN AttributeError
    ELSE
    LET text_data == Get(option_data, "text")
        value == Get(option_data, "value")
    IN
    IF ~Truthy(text_data) \/ ~Truthy(value)
    THEN ValueError("Option must have text and value")
    ELSE
    Then(parse_text_object(text_data), LAMBDA text :
    Then(parse_text_object_if_present(option_data, "description"), LAMBDA description :
    Ok(Option_create(text.f.text, value, TextAttr(description),
                     Get(option_data, "url")))))

\* [Message._parse_option(opt) for opt in xs], from item i on
RECURSIVE parse_options_from(_, _, _)
parse_options_from(xs, i, acc) ==
    IF i > Len(xs) THEN Ok(JList(acc))
    ELSE Then(parse_option(xs[i]), LAMBDA option :
              parse_options_from(xs, i + 1, Append(acc, option)))

parse_options(options_data) ==
    Then(Iter(options_data), LAMBDA xs : parse_options_from(xs, 1, <<>>))

\* the check split in two, each with a message of its own
parse_button_element_split(element_data) ==
    LET text_data == Get(element_data, "text")
        action_id == Get(element_data, "action_id")
    IN
    IF ~Truthy(text_data) THEN ValueError("Button must have text")
    ELSE IF ~Truthy(action_id) THEN ValueError("Button must have action_id")
    ELSE
    Then(parse_text_object(text_data), LAMBDA text :
    Ok(Button_create(text.f.text, action_id, Get(element_data, "url"),
                     Get(element_data, "value"), Get(element_data, "style"))))

parse_button_element(element_data) ==
    LET text_data == Get(element_data, "text")
        action_id == Get(element_data, "action_id")
    IN
    IF ~Truthy(text_data) \/ ~Truthy(action_id)
    THEN ValueError("Button must have text and action_id")
    ELSE
    Then(parse_text_object(text_data), LAMBDA text :
    Ok(Button_create(text.f.text, action_id, Get(element_data, "url"),
                     Get(element_data, "value"), Get(element_data, "style"))))

\* checkbox.initial_options = initial_options
With_initial_options(checkbox, initial_options) ==
    Model(checkbox.cls, [checkbox.f EXCEPT !.initial_options = initial_options])

parse_checkboxes_element(element_data) ==
    LET action_id == Get(element_data, "action_id") IN
    IF ~Truthy(action_id) THEN ValueErrorOf("must have action_id", JStr("Checkboxes"))
    ELSE
    Then(parse_options(GetDefault(element_data, "options", JList(<<>>))), LAMBDA options :
    IF HasKey(element_data, "initial_options")
    THEN Then(parse_options(element_data.f["initial_options"]), LAMBDA initial_options :
              Ok(With_initial_options(
                    OptionsElement_create("checkboxes", "Checkboxes", action_id, options),
                    initial_options)))
    ELSE Ok(OptionsElement_create("checkboxes", "Checkboxes", action_id, options)))

\* _parse_datepicker_element, _parse_timepicker_element,
\* _parse_datetimepicker_element, _parse_email_input_element,
\* _parse_number_input_element, _parse_plain_text_input_element,
\* _parse_url_input_element, _parse_file_input_element,
\* _parse_rich_text_input_element: the same code up to the class
parse_action_element(element_data, type, cls) ==
    LET action_id == Get(element_data, "action_id") IN
    IF ~Truthy(action_id) THEN ValueErrorOf("must have action_id", JStr(cls))
    ELSE Ok(ActionElement_create(type, cls, action_id))

\* _parse_radio_buttons_element, _parse_overflow_element
parse_options_element(element_data, type, cls) ==
    LET action_id == Get(element_data, "action_id") IN
    IF ~Truthy(action_id) THEN ValueErrorOf("must have action_id", JStr(cls))
    ELSE
    Then(parse_options(GetDefault(element_data, "options", JList(<<>>))), LAMBDA options :
    Ok(OptionsElement_create(type, cls, action_id, options)))

\* [Message._parse_option(opt) for opt in options_data] if options_data else None
parse_options_or_none(options_data) ==
    IF Truthy(options_data) THEN parse_options(options_data) ELSE Ok(None)

\* _parse_static_select_element, _parse_multi_static_select_element
parse_static_select_element(element_data, type, cls) ==
    LET action_id == Get(element_data, "action_id")
        placeholder_data == Get(element_data, "placeholder")
    IN
    IF ~Truthy(action_id) \/ ~Truthy(placeholder_data)
    THEN ValueErrorOf("must have action_id and placeholder", JStr(cls))
    ELSE
    Then(parse_text_object(placeholder_data), LAMBDA placeholder :
    Then(parse_options_or_none(GetDefault(element_data, "options", JList(<<>>))),
         LAMBDA options :
    Ok(StaticSelect_create(type, cls, action_id, placeholder.f.text, options))))

\* _parse_external_select_element, _parse_users_select_element,
\* _parse_conversations_select_element, _parse_channels_select_element and
\* their multi_ variants
\* the check on action_id alone, the placeholder decoded when it is there
parse_select_element_action_only(element_data, type, cls) ==
    LET action_id == Get(element_data, "action_id") IN
    IF ~Truthy(action_id) THEN ValueErrorOf("must have action_id", JStr(cls))
    ELSE
    Then(parse_text_object_if_present(element_data, "placeholder"), LAMBDA placeholder :
    Ok(Select_create(type, cls, action_id, TextAttr(placeholder))))

parse_select_element(element_data, type, cls) ==
    LET action_id == Get(element_data, "action_id")
        placeholder_data == Get(element_data, "placeholder")
    IN
    IF ~Truthy(action_id) \/ ~Truthy(placeholder_data)
    THEN ValueErrorOf("must have action_id and placeholder", JStr(cls))
    ELSE
    Then(parse_text_object(placeholder_data), LAMBDA placeholder :
    Ok(Select_create(type, cls, action_id, placeholder.f.text)))

parse_image_element(element_data) ==
    LET image_url == Get(element_data, "image_url")
        alt_text == Get(element_data, "alt_text")
    IN
    IF ~Truthy(image_url) \/ ~Truthy(alt_text)
    THEN ValueError("Image element must have image_url and alt_text")
    ELSE Ok(ImageElement_create(image_url, alt_text))

\* the class each element type of the dispatch is decoded to, by decoder shape
ActionElementClass ==
    [datepicker |-> "DatePicker", timepicker |-> "TimePicker",
     datetimepicker |-> "DatetimePicker", email_text_input |-> "EmailInput",
     number_input |-> "NumberInput", plain_text_input |-> "PlainTextInput",
     url_text_input |-> "URLInput", file_input |-> "FileInput",
     rich_text_input |-> "RichTextInput"]
OptionsElementClass ==
    [radio_buttons |-> "RadioButtons", overflow |-> "OverflowMenu"]
StaticSelectClass ==
    [static_select |-> "StaticSelect", multi_static_select |-> "MultiStaticSelect"]
\* the dispatch with its last branch (multi_channels_select) left out
SelectClass_without_last ==
    [external_select |-> "ExternalSelect", users_select |-> "UsersSelect",
     conversations_select |-> "ConversationsSelect",
     channels_select |-> "ChannelsSelect",
     multi_external_select |-> "MultiExternalSelect",
     multi_users_select |-> "MultiUsersSelect",
     multi_conversations_select |-> "MultiConversationsSelect"]
SelectClass ==
    [external_select |-> "ExternalSelect", users_select |-> "UsersSelect",
     conversations_select |-> "ConversationsSelect",
     channels_select |-> "ChannelsSelect",
     multi_external_select |-> "MultiExternalSelect",
     multi_users_select |-> "MultiUsersSelect",
     multi_conversations_select |-> "MultiConversationsSelect",
     multi_channels_select |-> "MultiChannelsSelect"]

parse_element(element_data) ==
    IF ~IsDict(element_data) THEN AttributeError
    ELSE
    LET element_type == Get(element_data, "type") IN
    IF ~Truthy(element_type) THEN ValueError("Element must have a type")
    ELSE IF ~IsStr(element_type)
    THEN ValueErrorOf("Unsupported element type", element_type)
    ELSE
    LET t == element_type.s IN
    IF t = "button" THEN parse_button_element(element_data)
    ELSE IF t = "checkboxes" THEN parse_checkboxes_element(element_data)
    ELSE IF t \in DOMAIN ActionElementClass
    THEN parse_action_element(element_data, t, ActionElementClass[t])
    ELSE IF t \in DOMAIN OptionsElementClass
    THEN parse_options_element(element_data, t, OptionsElementClass[t])
    ELSE IF t \in DOMAIN StaticSelectClass
    THEN parse_static_select_element(element_data, t, StaticSelectClass[t])
    ELSE IF t \in DOMAIN SelectClass
    THEN parse_select_element(element_data, t, SelectClass[t])
    ELSE IF t = "image" THEN parse_image_element(element_data)
    ELSE ValueErrorOf("Unsupported element type", element_type)

-----------------------------------------------------------------------------
(* blocks.py: the block constructors used by the decoders and by add_*.    *)

Block(type, cls, block_id, f) ==
    Model(cls, Merge([type |-> JStr(type), block_id |-> block_id], f))

Section_create(text, fields, accessory, block_id) ==
    Block("section", "Section", block_id,
          [text |-> text, fields |-> fields, accessory |-> accessory])
Divider_create(block_id) ==
    Block("divider", "Divider", block_id, EmptyFcn)
ImageBlock_create(image_url, alt_text, title, block_id) ==
    Block("image", "ImageBlock", block_id,
          [image_url |-> image_url, alt_text |-> alt_text, title |-> TextOf(title)])
Actions_create(elements, block_id) ==
    Block("actions", "Actions", block_id, [elements |-> elements])
Context_create(elements, block_id) ==
    Block("context", "Context", block_id, [elements |-> elements])
Input_create(label, element, hint, optional, dispatch_action, block_id) ==
    Block("input", "Input", block_id,
          [label |-> TextOf(label), element |-> element, hint |-> TextOf(hint),
           optional |-> optional, dispatch_action |-> dispatch_action])
File_create(external_id, block_id) ==
    Block("file", "File", block_id, [external_id |-> external_id])
Header_create(text, block_id) ==
    Block("header", "Header", block_id, [text |-> TextOf(text)])
Video_create(title, video_url, opt, block_id) ==
    Block("video", "Video", block_id,
          [title |-> TextOf(title), video_url |-> video_url,
           title_url |-> opt.title_url, description |-> TextOf(opt.description),
           thumbnail_url |-> opt.thumbnail_url, alt_text |-> opt.alt_text,
           author_name |-> opt.author_name, provider_name |-> opt.provider_name,
           provider_icon_url |-> opt.provider_icon_url])
RichText_create(elements, block_id) ==
    Block("rich_text", "RichText", block_id, [elements |-> elements])

-----------------------------------------------------------------------------
(* Message._parse_block and the block decoders.                            *)

\* [Message._parse_text_object(field) for field in xs], from item i on
RECURSIVE parse_text_objects_from(_, _, _)
parse_text_objects_from(xs, i, acc) ==
    IF i > Len(xs) THEN Ok(JList(acc))
    ELSE Then(parse_text_object(xs[i]), LAMBDA field :
              parse_text_objects_from(xs, i + 1, Append(acc, field)))

\* [Message._parse_element(elem) for elem in xs], from item i on
RECURSIVE parse_elements_from(_, _, _)
parse_elements_from(xs, i, acc) ==
    IF i > Len(xs) THEN Ok(JList(acc))
    ELSE Then(parse_element(xs[i]), LAMBDA element :
              parse_elements_from(xs, i + 1, Append(acc, element)))

\* the `fields` of _parse_section_block
parse_fields(block_data) ==
    IF HasKey(block_data, "fields")
    THEN Then(Iter(block_data.f["fields"]), LAMBDA xs :
              parse_text_objects_from(xs, 1, <<>>))
    ELSE Ok(None)

\* the `accessory` of _parse_section_block
parse_accessory(block_data) ==
    IF HasKey(block_data, "accessory")
    THEN parse_element(block_data.f["accessory"])
    ELSE Ok(None)

\* the platform's rule enforced: a section needs text or fields
parse_section_block_with_content(block_data, block_id) ==
    IF ~HasKey(block_data, "text") /\ ~HasKey(block_data, "fields")
    THEN ValueError("Section block must have text or fields")
    ELSE
    Then(parse_text_object_if_present(block_data, "text"), LAMBDA text :
    Then(parse_fields(block_data), LAMBDA fields :
    Then(parse_accessory(block_data), LAMBDA accessory :
    Ok(Section_create(text, fields, accessory, block_id)))))

parse_section_block(block_data, block_id) ==
    Then(parse_text_object_if_present(block_data, "text"), LAMBDA text :
    Then(parse_fields(block_data), LAMBDA fields :
    Then(parse_accessory(block_data), LAMBDA accessory :
    Ok(Section_create(text, fields, accessory, block_id)))))

parse_image_block(block_data, block_id) ==
    LET image_url == Get(block_data, "image_url")
        alt_text == Get(block_data, "alt_text")
    IN
    IF ~Truthy(image_url) \/ ~Truthy(alt_text)
    THEN ValueError("Image block must have image_url and alt_text")
    ELSE
    Then(parse_text_object_if_present(block_data, "title"), LAMBDA title :
    Ok(ImageBlock_create(image_url, alt_text, TextAttr(title), block_id)))

parse_actions_block(block_data, block_id) ==
    Then(Iter(GetDefault(block_data, "elements", JList(<<>>))), LAMBDA elements_data :
    Then(parse_elements_from(elements_data, 1, <<>>), LAMBDA elements :
    Ok(Actions_create(elements, block_id))))

\* every entry decoded as an element
parse_context_element_as_element(elem_data) ==
    IF ~IsDict(elem_data) THEN AttributeError ELSE parse_element(elem_data)

\* one turn of the loop of _parse_context_block
parse_context_element(elem_data) ==
    IF ~IsDict(elem_data) THEN AttributeError
    ELSE IF Get(elem_data, "type") \in {JStr("plain_text"), JStr("mrkdwn")}
    THEN parse_text_object(elem_data)
    ELSE parse_element(elem_data)

RECURSIVE parse_context_elements_from(_, _, _)
parse_context_elements_from(xs, i, acc) ==
    IF i > Len(xs) THEN Ok(JList(acc))
    ELSE Then(parse_context_element(xs[i]), LAMBDA element :
              parse_context_elements_from(xs, i + 1, Append(acc, element)))

parse_context_block(block_data, block_id) ==
    Then(Iter(GetDefault(block_data, "elements", JList(<<>>))), LAMBDA elements_data :
    Then(parse_context_elements_from(elements_data, 1, <<>>), LAMBDA elements :
    Ok(Context_create(elements, block_id))))

\* _parse_input_block from `element_data = ...` on
parse_input_element(block_data, block_id, label) ==
    LET element_data == Get(block_data, "element") IN
    IF ~Truthy(element_data) THEN ValueError("Input block must have an element")
    ELSE
    Then(parse_element(element_data), LAMBDA element :
    Then(parse_text_object_if_present(block_data, "hint"), LAMBDA hint :
    Ok(Input_create(label.f.text, element, TextAttr(hint),
                    Get(block_data, "optional"), Get(block_data, "dispatch_action"),
                    block_id))))

parse_input_block(block_data, block_id) ==
    LET label_data == Get(block_data, "label") IN
    IF ~Truthy(label_data) THEN ValueError("Input block must have a label")
    ELSE
    Then(parse_text_object(label_data), LAMBDA label :
         parse_input_element(block_data, block_id, label))

\* the block made without the check of external_id
parse_file_block_unchecked(block_data, block_id) ==
    Ok(File_create(Get(block_data, "external_id"), block_id))

parse_file_block(block_data, block_id) ==
    LET external_id == Get(block_data, "external_id") IN
    IF ~Truthy(external_id) THEN ValueError("File block must have external_id")
    ELSE Ok(File_create(external_id, block_id))

\* the decoded text object handed on whole: Header(text=text, block_id=block_id)
parse_header_block_keeping_text(block_data, block_id) ==
    LET text_data == Get(block_data, "text") IN
    IF ~Truthy(text_data) THEN ValueError("Header block must have text")
    ELSE
    Then(parse_text_object(text_data), LAMBDA text :
    Ok(Block("header", "Header", block_id, [text |-> text])))

parse_header_block(block_data, block_id) ==
    LET text_data == Get(block_data, "text") IN
    IF ~Truthy(text_data) THEN ValueError("Header block must have text")
    ELSE
    Then(parse_text_object(text_data), LAMBDA text :
    Ok(Header_create(text.f.text, block_id)))

parse_video_block(block_data, block_id) ==
    LET title_data == Get(block_data, "title")
        video_url == Get(block_data, "video_url")
    IN
    IF ~Truthy(title_data) \/ ~Truthy(video_url)
    THEN ValueError("Video block must have title and video_url")
    ELSE
    Then(parse_text_object(title_data), LAMBDA title :
    Ok(Video_create(title.f.text, video_url,
                    [title_url |-> Get(block_data, "title_url"),
                     description |-> Get(block_data, "description"),
                     thumbnail_url |-> Get(block_data, "thumbnail_url"),
                     alt_text |-> Get(block_data, "alt_text"),
                     author_name |-> Get(block_data, "author_name"),
                     provider_name |-> Get(block_data, "provider_name"),
                     provider_icon_url |-> Get(block_data, "provider_icon_url")],
                    block_id)))

\* the block made without the payload's elements
parse_rich_text_block_dropping(block_data, block_id) ==
    Ok(RichText_create(JList(<<>>), block_id))

parse_rich_text_block(block_data, block_id) ==
    Ok(RichText_create(GetDefault(block_data, "elements", JList(<<>>)), block_id))

\* _parse_block from `block_id = ...` on
dispatch_block(block_data, block_type, block_id) ==
    IF block_type = JStr("section") THEN parse_section_block(block_data, block_id)
    ELSE IF block_type = JStr("divider") THEN Ok(Divider_create(block_id))
    ELSE IF block_type = JStr("image") THEN parse_image_block(block_data, block_id)
    ELSE IF block_type = JStr("actions") THEN parse_actions_block(block_data, block_id)
    ELSE IF block_type = JStr("context") THEN parse_context_block(block_data, block_id)
    ELSE IF block_type = JStr("input") THEN parse_input_block(block_data, block_id)
    ELSE IF block_type = JStr("file") THEN parse_file_block(block_data, block_id)
    ELSE IF block_type = JStr("header") THEN parse_header_block(block_data, block_id)
    ELSE IF block_type = JStr("video") THEN parse_video_block(block_data, block_id)
    ELSE IF block_type = JStr("rich_text")
    THEN parse_rich_text_block(block_data, block_id)
    ELSE ValueErrorOf("Unsupported block type", block_type)

\* the dispatch entered without the check of the type
parse_block_dispatching(block_data) ==
    dispatch_block(block_data, Get(block_data, "type"), Get(block_data, "block_id"))

parse_block(block_data) ==
    IF ~Truthy(Get(block_data, "type")) THEN ValueError("Block must have a type")
    ELSE dispatch_block(block_data, Get(block_data, "type"), Get(block_data, "block_id"))

-----------------------------------------------------------------------------
(* The containers: construction, from_payload, build.                      *)

\* SlackConstraints (validators.py).  The ceilings are scaled down so that a
\* container one block over its ceiling stays within the model's bounds.
MAX_BLOCKS_PER_MESSAGE == 2
MAX_BLOCKS_PER_MODAL == 3
MAX_BLOCKS_PER_HOME_TAB == 3

MaxBlocksOf(cls) ==
    CASE cls = "Message" -> MAX_BLOCKS_PER_MESSAGE
      [] cls = "Modal" -> MAX_BLOCKS_PER_MODAL
      [] cls = "HomeTab" -> MAX_BLOCKS_PER_HOME_TAB

LimitExceeded(exc, n) == Raise(exc, "Number of blocks exceeds maximum", JNum(n))

\* the optional fields of each container, all None after construction
MessageFields ==
    [response_type |-> None, replace_original |-> None, delete_original |-> None,
     metadata |-> None]
ModalFields ==
    [submit |-> None, close |-> None, private_metadata |-> None,
     callback_id |-> None, clear_on_close |-> None, notify_on_close |-> None,
     external_id |-> None]
HomeTabFields ==
    [private_metadata |-> None, callback_id |-> None, external_id |-> None]

Container(cls, blocks, f) == [cls |-> cls, blocks |-> blocks, f |-> f]

\* validate_blocks without its comparison
validate_blocks_unchecked(cls, v) == Ok(v)

\* validate_blocks: the field validator pydantic runs when the container is
\* constructed (and not on assignment or on blocks.append); its ValueError
\* surfaces as pydantic's ValidationError, a ValueError
validate_blocks(cls, v) ==
    IF Len(v) > MaxBlocksOf(cls) THEN LimitExceeded("ValidationError", Len(v))
    ELSE Ok(v)

\* Message(blocks=...), Modal(title=..., blocks=...), HomeTab(blocks=...)
Message_new(blocks) ==
    Then(validate_blocks("Message", blocks), LAMBDA v :
         Ok(Container("Message", v, MessageFields)))
Modal_new(title, blocks) ==
    Then(validate_blocks("Modal", blocks), LAMBDA v :
         Ok(Container("Modal", v,
                      Merge([type |-> JStr("modal"), title |-> title], ModalFields))))
HomeTab_new(blocks) ==
    Then(validate_blocks("HomeTab", blocks), LAMBDA v :
         Ok(Container("HomeTab", v, Merge([type |-> JStr("home")], HomeTabFields))))

\* json.loads without the try/except around it: the decoder's own exception
Invalid_JSON_uncaught(e) ==
    IF e.ok THEN Ok(e.v)
    ELSE Raise("JSONDecodeError", e.msg, JNum(e.pos))

\* except json.JSONDecodeError as e: raise ValueError(f"Invalid JSON payload: {e}")
Invalid_JSON(e) ==
    IF e.ok THEN Ok(e.v)
    ELSE Raise("ValueError", "Invalid JSON payload",
               [k |-> "JSONDecodeError", msg |-> e.msg, pos |-> e.pos])

\* from_payload without the isinstance(payload, str) branch
load_payload_unparsed(p) == Ok(p)

\* from_payload, the `if isinstance(payload, str)` statement: a str payload
\* is parsed as JSON
load_payload(p) == IF IsStr(p) THEN Invalid_JSON(loads(p.text)) ELSE Ok(p)

\* from_payload without the isinstance(payload_dict, dict) check
check_payload_unchecked(payload_dict) == Ok(payload_dict)

\* from_payload, `if not isinstance(payload_dict, dict)`
check_payload(payload_dict) ==
    IF ~IsDict(payload_dict) THEN ValueError("Payload must be a dictionary")
    ELSE Ok(payload_dict)

\* from_payload, blocks_data and its check; then `for block_data in
\* blocks_data` needs blocks_data to be iterable
extract_blocks(payload_dict) ==
    IF ~IsDict(payload_dict) THEN AttributeError
    ELSE
    LET blocks_data == GetDefault(payload_dict, "blocks", JList(<<>>)) IN
    IF blocks_data # None /\ ~IsList(blocks_data)
    THEN ValueError("Blocks must be a list")
    ELSE Iter(blocks_data)

\* a result of from_payload together with parsed_blocks as it was when
\* from_payload returned or raised
At_exit(r, parsed_blocks) ==
    IF r.ok THEN [ok |-> TRUE, v |-> r.v, parsed |-> parsed_blocks]
    ELSE [ok |-> FALSE, err |-> r.err, parsed |-> parsed_blocks]

\* a step of from_payload before the loop: an exception leaves with no block
\* decoded
Before_loop(r, rest(_)) == IF r.ok THEN rest(r.v) ELSE At_exit(r, <<>>)

\* the loop body without the isinstance(block_data, dict) check:
\* block_data.get raises on a value that is not a dict
parse_entry_unchecked(block_data) ==
    IF ~IsDict(block_data) THEN AttributeError ELSE parse_block(block_data)

\* the body of the loop for one block_data
parse_entry(block_data) ==
    IF ~IsDict(block_data) THEN ValueError("Each block must be a dictionary")
    ELSE parse_block(block_data)

\* one turn of the loop: the exception of parse_entry, or the next turn with
\* the parsed block appended
Loop_turn(r, parsed_blocks, rest(_)) ==
    IF r.ok THEN rest(Append(parsed_blocks, r.v)) ELSE At_exit(r, parsed_blocks)

\* one turn of a loop that goes on after a block that failed to decode
Skip_turn(r, parsed_blocks, rest(_)) ==
    IF r.ok THEN rest(Append(parsed_blocks, r.v)) ELSE rest(parsed_blocks)

\* the loop with the failing blocks left out instead of raised
RECURSIVE parse_blocks_skipping(_, _, _)
parse_blocks_skipping(blocks_data, i, parsed_blocks) ==
    IF i > Len(blocks_data) THEN At_exit(Ok(parsed_blocks), parsed_blocks)
    ELSE Skip_turn(parse_entry(blocks_data[i]), parsed_blocks, LAMBDA appended :
                   parse_blocks_skipping(blocks_data, i + 1, appended))

\* the loop over reversed(blocks_data)
RECURSIVE parse_blocks_reversed(_, _, _)
parse_blocks_reversed(blocks_data, i, parsed_blocks) ==
    IF i > Len(blocks_data) THEN At_exit(Ok(parsed_blocks), parsed_blocks)
    ELSE Loop_turn(parse_entry(blocks_data[Len(blocks_data) + 1 - i]), parsed_blocks,
                   LAMBDA appended :
                   parse_blocks_reversed(blocks_data, i + 1, appended))

\* from_payload, the loop over blocks_data from item i on, with parsed_blocks
\* so far
RECURSIVE parse_blocks_from(_, _, _)
parse_blocks_from(blocks_data, i, parsed_blocks) ==
    IF i > Len(blocks_data) THEN At_exit(Ok(parsed_blocks), parsed_blocks)
    ELSE Loop_turn(parse_entry(blocks_data[i]), parsed_blocks, LAMBDA appended :
                   parse_blocks_from(blocks_data, i + 1, appended))

\* message.<name> = payload_dict[<name>] for each name present (plain
\* attribute assignment: pydantic does not validate it)
\* the two flags read with a default: payload_dict.get(name, False)
set_properties_defaulting(message, payload_dict) ==
    Container(message.cls, message.blocks,
              [name \in DOMAIN message.f |->
                  IF HasKey(payload_dict, name) THEN payload_dict.f[name]
                  ELSE IF name \in {"replace_original", "delete_original"}
                  THEN JBool(FALSE)
                  ELSE message.f[name]])
\* the properties set on `if payload_dict.get(name)` instead of `if name in`
set_properties_if_truthy(message, payload_dict) ==
    Container(message.cls, message.blocks,
              [name \in DOMAIN message.f |->
                  IF Truthy(Get(payload_dict, name)) THEN payload_dict.f[name]
                  ELSE message.f[name]])

set_properties(message, payload_dict) ==
    Container(message.cls, message.blocks,
              [name \in DOMAIN message.f |->
                  IF HasKey(payload_dict, name) THEN payload_dict.f[name]
                  ELSE message.f[name]])

\* from_payload from `message = cls(blocks=parsed_blocks)` on
new_message_unvalidated(parsed_blocks, payload_dict) ==
    At_exit(Ok(set_properties(Container("Message", parsed_blocks, MessageFields),
                              payload_dict)),
            parsed_blocks)
new_message(parsed_blocks, payload_dict) ==
    At_exit(Then(Message_new(parsed_blocks), LAMBDA message :
                 Ok(set_properties(message, payload_dict))),
            parsed_blocks)

\* after the loop: the loop's exception, or the message
After_loop(r, rest(_)) == IF r.ok THEN rest(r.v) ELSE r

\* Message.from_payload(payload): Ok(message), or the exception; either with
\* the blocks decoded when it returned or raised
from_payload(p) ==
    Before_loop(load_payload(p), LAMBDA loaded :
    Before_loop(check_payload(loaded), LAMBDA payload_dict :
    Before_loop(extract_blocks(payload_dict), LAMBDA blocks_data :
    After_loop(parse_blocks_from(blocks_data, 1, <<>>), LAMBDA parsed_blocks :
               new_message(parsed_blocks, payload_dict)))))

\* block.build() and the encoders below it: the object's set fields, each
\* encoded in turn; a value that is not a typed object is emitted as it is
RECURSIVE encode(_)
encode(v) ==
    CASE v.k = "model" ->
            JObj([key \in {x \in DOMAIN v.f : v.f[x] # None} |-> encode(v.f[key])])
      [] v.k = "list" -> JList([i \in 1..Len(v.xs) |-> encode(v.xs[i])])
      [] OTHER -> v

\* the blocks encoded last to first
build_blocks_reversed(blocks) ==
    JList([i \in 1..Len(blocks) |-> encode(blocks[Len(blocks) + 1 - i])])

\* [block.build() for block in self.blocks]
build_blocks(blocks) == JList([i \in 1..Len(blocks) |-> encode(blocks[i])])

\* result[name] = self.<name> for each optional field in names that is set
RECURSIVE put_set_fields(_, _, _)
put_set_fields(result, f, names) ==
    IF names = {} THEN result
    ELSE LET name == CHOOSE n \in names : TRUE IN
         put_set_fields(PutIfSet(result, name, f[name]), f, names \ {name})

\* build with every optional field copied, set or not
Message_build_all(m) ==
    Ok(JObj(Merge([blocks |-> build_blocks(m.blocks)], m.f)))

Message_build(m) ==
    Ok(put_set_fields(JObj([blocks |-> build_blocks(m.blocks)]), m.f,
                      DOMAIN MessageFields))

PlainTextDict(string) == JObj([type |-> JStr("plain_text"), text |-> string])

Modal_build(m) ==
    IF Len(m.blocks) > MAX_BLOCKS_PER_MODAL
    THEN LimitExceeded("ValueError", Len(m.blocks))
    ELSE
    LET result == JObj([type |-> m.f.type, title |-> PlainTextDict(m.f.title),
                        blocks |-> build_blocks(m.blocks)])
        texts == [name \in {"submit", "close"} |->
                     IF m.f[name] = None THEN None ELSE PlainTextDict(m.f[name])]
    IN
    Ok(put_set_fields(put_set_fields(result, texts, {"submit", "close"}), m.f,
                      DOMAIN ModalFields \ {"submit", "close"}))

HomeTab_build(m) ==
    IF Len(m.blocks) > MAX_BLOCKS_PER_HOME_TAB
    THEN LimitExceeded("ValueError", Len(m.blocks))
    ELSE Ok(put_set_fields(JObj([type |-> m.f.type, blocks |-> build_blocks(m.blocks)]),
                           m.f, DOMAIN HomeTabFields))

build(m) ==
    CASE m.cls = "Message" -> Message_build(m)
      [] m.cls = "Modal" -> Modal_build(m)
      [] m.cls = "HomeTab" -> HomeTab_build(m)

-----------------------------------------------------------------------------
(* Inputs.  The payloads are built from the payloads of                    *)
(* tests/test_message_from_payload.py and defective variants of them.      *)

O(f) == JObj(f)
L(xs) == JList(xs)
S(s) == JStr(s)

\* a str payload: the JSON text it holds
JText(toks) == [k |-> "str", text |-> toks]

\* bounds of the input sets: the longest blocks list drawn over CoreEntries,
\* and how far past its ceiling a container is grown
MaxLen == 3
MaxOver == 1

\* text objects
PT == O([type |-> S("plain_text"), text |-> S("Test Header")])
PTe == O([type |-> S("plain_text"), text |-> S("Test Header"), emoji |-> JBool(TRUE)])
PTf == O([type |-> S("plain_text"), text |-> S("Field 1"), emoji |-> JBool(FALSE)])
MD == O([type |-> S("mrkdwn"), text |-> S("*Field 2*")])
MDv == O([type |-> S("mrkdwn"), text |-> S("*Bold text*"), verbatim |-> JBool(FALSE)])
TextNoText == O([type |-> S("plain_text")])
TextNoType == O([text |-> S("Test Header")])
TextBadType == O([type |-> S("html"), text |-> S("Test Header")])

\* elements
Opt == O([text |-> PT, value |-> S("v1")])
ButtonEl ==
    O([type |-> S("button"), action_id |-> S("test_button"), text |-> PT,
       style |-> S("primary"), url |-> S("https://example.com")])
ButtonNoAction == O([type |-> S("button"), text |-> PT])
ImageEl ==
    O([type |-> S("image"), image_url |-> S("https://example.com/i.png"),
       alt_text |-> S("alt")])
InputEl == O([type |-> S("plain_text_input"), action_id |-> S("in1")])
DateEl ==
    O([type |-> S("datepicker"), action_id |-> S("d1"), initial_date |-> S("2024-01-01")])
SelectEl ==
    O([type |-> S("static_select"), action_id |-> S("s1"), placeholder |-> PT,
       options |-> L(<<Opt>>)])
UsersEl == O([type |-> S("users_select"), action_id |-> S("u1"), placeholder |-> PT])
CheckEl ==
    O([type |-> S("checkboxes"), action_id |-> S("c1"), options |-> L(<<Opt>>),
       initial_options |-> L(<<Opt>>)])
OverflowEl == O([type |-> S("overflow"), action_id |-> S("o1"), options |-> L(<<Opt>>)])
ElNoType == O([action_id |-> S("x")])
ElBadType == O([type |-> S("slider"), action_id |-> S("x")])

\* the kinds the dispatch tables know: 24 element kinds, 10 block kinds, 2 text
\* kinds
ElementKinds ==
    {"button", "checkboxes", "datepicker", "timepicker", "datetimepicker",
     "email_text_input", "number_input", "plain_text_input", "url_text_input",
     "radio_buttons", "static_select", "external_select", "users_select",
     "conversations_select", "channels_select", "multi_static_select",
     "multi_external_select", "overflow", "file_input", "rich_text_input", "image",
     "multi_users_select", "multi_conversations_select", "multi_channels_select"}
BlockKinds ==
    {"section", "divider", "image", "actions", "context", "input", "file", "header",
     "video", "rich_text"}
TextKinds == {"plain_text", "mrkdwn"}

\* an element of type t carrying every field some kind requires
KindElement(t) ==
    O([type |-> S(t), action_id |-> S("a1"), text |-> PT, placeholder |-> PT,
       image_url |-> S("https://example.com/i.png"), alt_text |-> S("alt")])

\* an actions block with a button and then an element of each kind, and of
\* kinds no table knows
KindEntries ==
    {O([type |-> S("actions"), elements |-> L(<<ButtonEl, KindElement(t)>>)]) :
        t \in ElementKinds \cup {"slider", "plain_text", "section"}}

\* block entries that decode
DividerB == O([type |-> S("divider")])
DividerId == O([type |-> S("divider"), block_id |-> S("6MYH6")])
HeaderB == O([type |-> S("header"), block_id |-> S("test_header"), text |-> PT])
HeaderEmoji == O([type |-> S("header"), block_id |-> S("test_header"), text |-> PTe])
HeaderMrkdwn == O([type |-> S("header"), text |-> MD])
SectionB ==
    O([type |-> S("section"), block_id |-> S("test_section"), text |-> MDv,
       fields |-> L(<<PTf, MD>>)])
SectionEmpty == O([type |-> S("section")])
SectionFlags ==
    O([type |-> S("section"), text |-> PTe,
       fields |-> L(<<PT, PTf, MD, MDv,
                      O([type |-> S("mrkdwn"), text |-> S("*Field 2*"),
                         verbatim |-> JBool(TRUE)])>>)])
SectionAcc == O([type |-> S("section"), text |-> MD, accessory |-> ButtonEl])
ImageB ==
    O([type |-> S("image"), image_url |-> S("https://example.com/i.png"),
       alt_text |-> S("alt"), title |-> PT])
ActionsB ==
    O([type |-> S("actions"), block_id |-> S("test_actions"),
       elements |-> L(<<ButtonEl, DateEl>>)])
ActionsSel == O([type |-> S("actions"), elements |-> L(<<SelectEl, UsersEl>>)])
ActionsOpt == O([type |-> S("actions"), elements |-> L(<<CheckEl, OverflowEl>>)])
ActionsNone == O([type |-> S("actions")])
ContextB ==
    O([type |-> S("context"), block_id |-> S("test_context"),
       elements |-> L(<<MDv, ImageEl>>)])
InputB ==
    O([type |-> S("input"), label |-> PT, element |-> InputEl,
       optional |-> JBool(FALSE)])
FileB == O([type |-> S("file"), external_id |-> S("F123")])
VideoB ==
    O([type |-> S("video"), title |-> PT, video_url |-> S("https://example.com/v"),
       alt_text |-> S("alt")])
RichTextB ==
    O([type |-> S("rich_text"), block_id |-> S("rt"),
       elements |-> L(<<O([type |-> S("rich_text_section"),
                           elements |-> L(<<O([type |-> S("text"),
                                               text |-> S("hi")])>>)])>>)])
DividerExtra == O([type |-> S("divider"), color |-> S("red")])
ContextMany ==
    O([type |-> S("context"), elements |-> L(<<PT, ImageEl, MD, ButtonEl, PT>>)])
ContextNone == O([type |-> S("context"), block_id |-> S("c0")])
RichTextMany ==
    O([type |-> S("rich_text"),
       elements |-> L(<<O([type |-> S("rich_text_list"), style |-> S("bullet"),
                           elements |-> L(<<>>)]),
                        O([type |-> S("button"), note |-> None]),
                        O([type |-> S("rich_text_list"), style |-> S("bullet"),
                           elements |-> L(<<>>)]),
                        EmptyObj>>)])
RichTextNone == O([type |-> S("rich_text"), block_id |-> S("rt0")])

GoodEntries ==
    {DividerB, DividerId, HeaderB, HeaderEmoji, HeaderMrkdwn, SectionB, SectionEmpty,
     SectionFlags, SectionAcc, ImageB, ActionsB, ActionsSel, ActionsOpt, ActionsNone, ContextB,
     InputB, FileB, VideoB, RichTextB, RichTextMany, RichTextNone, DividerExtra,
     ContextMany, ContextNone}

\* block entries that do not decode
NotADict == S("not a dict")
NoType == O([not_type |-> S("test")])
EmptyType == O([type |-> S(""), block_id |-> S("b")])
Unsupported == O([type |-> S("unsupported_block")])
HeaderNoText == O([type |-> S("header"), block_id |-> S("h")])
HeaderBadText == O([type |-> S("header"), text |-> TextNoText])
HeaderStrText == O([type |-> S("header"), text |-> S("Test Header")])
HeaderHtml == O([type |-> S("header"), text |-> TextBadType])
HeaderHtmlNoText == O([type |-> S("header"), text |-> O([type |-> S("html")])])
ImageNoAlt == O([type |-> S("image"), image_url |-> S("https://example.com/i.png")])
InputNoElement == O([type |-> S("input"), label |-> PT])
FileNoId == O([type |-> S("file")])
VideoNoTitle == O([type |-> S("video"), video_url |-> S("https://example.com/v")])
SectionBadField == O([type |-> S("section"), fields |-> L(<<PT, TextBadType>>)])
SectionNullFields == O([type |-> S("section"), fields |-> None])
ActionsBadEl == O([type |-> S("actions"), elements |-> L(<<ButtonEl, ButtonNoAction>>)])
ActionsBadType == O([type |-> S("actions"), elements |-> L(<<ElBadType>>)])
ContextNoType == O([type |-> S("context"), elements |-> L(<<ElNoType>>)])
ContextStr == O([type |-> S("context"), elements |-> L(<<S("text")>>)])
ContextBadText ==
    O([type |-> S("context"), elements |-> L(<<ImageEl, O([type |-> S("mrkdwn")])>>)])
ContextBadEl ==
    O([type |-> S("context"), elements |-> L(<<MD, ElBadType, PT>>)])

ImageNoUrl == O([type |-> S("image"), alt_text |-> S("alt")])
VideoNoUrl == O([type |-> S("video"), title |-> PT])
InputNoLabel == O([type |-> S("input"), element |-> InputEl])
OptNoValue == O([text |-> PT])
OptNoText == O([value |-> S("v1")])
ActionsOptNoValue ==
    O([type |-> S("actions"),
       elements |-> L(<<O([type |-> S("checkboxes"), action_id |-> S("c1"),
                           options |-> L(<<OptNoValue>>)])>>)])
ActionsOptNoText ==
    O([type |-> S("actions"),
       elements |-> L(<<O([type |-> S("checkboxes"), action_id |-> S("c1"),
                           options |-> L(<<OptNoText>>)])>>)])

\* the dict d with one key left out
Without(d, key) == JObj([x \in DOMAIN d.f \ {key} |-> d.f[x]])

\* text objects: each type (none, empty, the two kinds, an unknown one) with
\* each text (none, null, empty, a string), and a section over each
TextSamples ==
    {JObj(Merge(ty, tx)) :
        ty \in {EmptyFcn} \cup {[type |-> S(t)] : t \in {"", "plain_text", "mrkdwn", "html"}},
        tx \in {EmptyFcn} \cup {[text |-> v] : v \in {None, S(""), S("*Bold text*")}}}
TextEntries == {O([type |-> S("section"), text |-> t]) : t \in TextSamples}

\* options: each text, value, description and url (or none), and an actions
\* block over a checkboxes group with each as its only option
OptionSamples ==
    {JObj(Merge(Merge(tx, va), Merge(de, ur))) :
        tx \in {EmptyFcn} \cup {[text |-> t] : t \in {PT, MDv, TextNoText, TextBadType}},
        va \in {EmptyFcn} \cup {[value |-> v] : v \in {S("v1"), S("")}},
        de \in {EmptyFcn} \cup {[description |-> t] : t \in {PTe, TextNoText}},
        ur \in {EmptyFcn, [url |-> S("https://example.com")]}}
OptionEntries ==
    {O([type |-> S("actions"),
        elements |-> L(<<O([type |-> S("checkboxes"), action_id |-> S("c1"),
                            options |-> L(<<o>>)])>>)]) : o \in OptionSamples}

\* a block of each kind with its fields, and each with one of them left out
\* or (for the fields that are strings) empty
FullBlocks ==
    {DividerId, HeaderB, SectionB, SectionAcc, ImageB, ActionsB, ContextB, InputB,
     FileB, VideoB, RichTextB}
DropEntries ==
    UNION {{Without(b, key) : key \in DOMAIN b.f \ {"type"}} : b \in FullBlocks}
EmptiedEntries ==
    UNION {{Put(b, key, S("")) :
               key \in {x \in DOMAIN b.f \ {"type"} : IsStr(b.f[x])}} :
           b \in FullBlocks}

\* blocks and elements with no type, or an empty one, whatever else they hold
NoTypes(d) ==
    {Without(d, "type")} \cup {Put(d, "type", v) : v \in {S(""), None, JNum(0)}}
TypelessElements ==
    UNION {NoTypes(e) : e \in {ButtonEl, ButtonNoAction, ElBadType, SelectEl}}
TypelessEntries ==
    UNION {NoTypes(b) : b \in FullBlocks \cup {HeaderBadText, ImageNoAlt, ActionsBadType}}
    \cup {O([type |-> S("actions"), elements |-> L(<<ButtonEl, e>>)]) :
             e \in TypelessElements}
    \cup {O([type |-> S("context"), elements |-> L(<<e, MDv>>)]) :
             e \in TypelessElements}
    \cup {O([type |-> S("input"), label |-> PT, element |-> e]) :
             e \in TypelessElements}
    \cup {O([type |-> S("section"), accessory |-> e]) : e \in TypelessElements}

\* an actions block over one element of each type, one field left out
LackFields == {"action_id", "text", "placeholder", "image_url", "alt_text"}
LackEntries ==
    {O([type |-> S("actions"), elements |-> L(<<Without(KindElement(t), f)>>)]) :
        t \in ElementKinds, f \in LackFields}

BadEntries ==
    {NotADict, JNum(7), None, L(<<>>), NoType, EmptyType, Unsupported, HeaderNoText,
     HeaderBadText, HeaderStrText, HeaderHtml, HeaderHtmlNoText, ImageNoAlt,
     ImageNoUrl, InputNoElement, InputNoLabel, FileNoId, VideoNoTitle, VideoNoUrl,
     SectionBadField, SectionNullFields, ActionsBadEl, ActionsBadType,
     ActionsOptNoValue, ActionsOptNoText, ContextNoType, ContextStr,
     ContextBadText, ContextBadEl}

\* the entries the longer lists are drawn over
CoreEntries == {DividerId, HeaderB, NotADict, NoType, Unsupported, HeaderNoText}

SeqsUpTo(E, n) == UNION {[1..m -> E] : m \in 0..n}

BlockLists ==
    {<<e>> : e \in GoodEntries \cup BadEntries \cup KindEntries \cup LackEntries
                     \cup TextEntries \cup OptionEntries
                     \cup DropEntries \cup EmptiedEntries \cup TypelessEntries}
    \cup SeqsUpTo(CoreEntries, MaxLen)

\* the message-level properties a payload may carry ("text" is not one the
\* decoder knows)
PropertySets ==
    {EmptyFcn,
     [response_type |-> S("ephemeral"), replace_original |-> JBool(TRUE),
      delete_original |-> JBool(FALSE), metadata |-> O([key |-> S("value")])],
     [response_type |-> S("in_channel")],
     [response_type |-> S("everyone")],
     [replace_original |-> JBool(FALSE)],
     [delete_original |-> JBool(TRUE), text |-> S("fallback")],
     [metadata |-> O([event_type |-> S("t"), event_payload |-> EmptyObj])],
     [metadata |-> O([event_payload |-> O([ids |-> L(<<JNum(2), JNum(1), JNum(2)>>),
                                           note |-> None])])],
     [metadata |-> EmptyObj, replace_original |-> None],
     [response_type |-> None, metadata |-> None]}

\* dictionaries: a blocks list without properties, and a short list (or no
\* blocks key at all) with each property set
DictPayloads ==
    {O([blocks |-> L(bs)]) : bs \in BlockLists}
    \cup {O(props) : props \in PropertySets}
    \cup {O(Merge([blocks |-> L(bs)], props)) :
             bs \in {<<>>, <<HeaderB>>, <<Unsupported>>}, props \in PropertySets}

\* dictionaries whose blocks value is not a list
BadBlocksPayloads ==
    {O([blocks |-> v]) :
        v \in {None, S("not a list"), JNum(5), O([type |-> S("divider")]), EmptyObj,
               JBool(TRUE)}}

\* values that are not dictionaries (and not str)
NonDictPayloads == {None, L(<<>>), L(<<DividerB>>), JNum(42), JBool(TRUE)}

\* JSON texts: the JSON of a dictionary, of a value that is not one, and
\* texts that are not JSON
JsonTexts ==
    {dumps(v) : v \in {O([blocks |-> L(bs)]) : bs \in SeqsUpTo(CoreEntries, 1)}
                      \cup {O(props) : props \in PropertySets}
                      \cup BadBlocksPayloads \cup NonDictPayloads
                      \cup {S("not a dict"), EmptyObj}}
BadTexts ==
    {<<>>,
     <<TWord("invalid"), TWord("json")>>,
     <<Tok("{")>>,
     <<Tok("{"), TStr("blocks"), Tok(":")>>,
     <<Tok("{"), TStr("blocks"), Tok("["), Tok("]"), Tok("}")>>,
     <<Tok("{"), TStr("blocks"), Tok(":"), Tok("["), Tok("]")>>,
     <<Tok("{"), TStr("blocks"), Tok(":"), Tok("["), Tok("]"), Tok(","), Tok("}")>>,
     <<Tok("{"), TWord("blocks"), Tok(":"), Tok("["), Tok("]"), Tok("}")>>,
     <<Tok("{"), TStr("blocks"), Tok(":"), Tok("["), Tok("{"), Tok("}"), Tok("{"),
       Tok("}"), Tok("]"), Tok("}")>>,
     <<Tok("{"), TStr("blocks"), Tok(":"), Tok("["), Tok(","), Tok("]"), Tok("}")>>,
     <<Tok("{"), Tok("}"), Tok("{"), Tok("}")>>,
     <<Tok("["), Tok("]"), Tok("]")>>}

Payloads ==
    DictPayloads \cup BadBlocksPayloads \cup NonDictPayloads
    \cup {JText(t) : t \in JsonTexts \cup BadTexts}

-----------------------------------------------------------------------------
(* The state machine.                                                      *)

Absent == [k |-> "absent"]

Init ==
    /\ payload = Absent
    /\ pc = "start"
    /\ self = Absent
    /\ raised = NoError
    /\ built = Absent
    /\ decoded = <<>>

\* a constructor or from_payload returned or raised: r is its result
Constructed(r) ==
    /\ pc' = IF r.ok THEN "ready" ELSE "failed"
    /\ self' = IF r.ok THEN r.v ELSE Absent
    /\ raised' = IF r.ok THEN NoError ELSE r.err
    /\ built' = Absent

\* message = Message.from_payload(p), for p drawn from `inputs`; r is the
\* call's result
Decoded(p, r) ==
    /\ payload' = p
    /\ decoded' = r.parsed
    /\ Constructed(r)

FromPayloadOf(inputs) ==
    /\ pc = "start"
    /\ \E p \in inputs : Decoded(p, from_payload(p))

\* the blocks a program appends or constructs with
SectionArg == Section_create(MrkdwnText_create(S("New section added!"), None),
                             None, None, None)
FileArg == File_create(S("F123"), S("file_block"))

NDividers(n) == [i \in 1..n |-> Divider_create(None)]

\* Message(blocks=[...]) (Message.create() when the list is empty)
NewMessage ==
    /\ pc = "start"
    /\ \E n \in 0..(MAX_BLOCKS_PER_MESSAGE + MaxOver) :
          Constructed(Message_new(NDividers(n)))
    /\ UNCHANGED <<payload, decoded>>

\* Modal(title=..., blocks=[...]) (Modal.create(title) when the list is empty)
NewModal ==
    /\ pc = "start"
    /\ \E n \in 0..(MAX_BLOCKS_PER_MODAL + MaxOver) :
          Constructed(Modal_new(S("My Modal"), NDividers(n)))
    /\ UNCHANGED <<payload, decoded>>

\* HomeTab(blocks=[...]) (HomeTab.create() when the list is empty)
NewHomeTab ==
    /\ pc = "start"
    /\ \E n \in 0..(MAX_BLOCKS_PER_HOME_TAB + MaxOver) :
          Constructed(HomeTab_new(NDividers(n)))
    /\ UNCHANGED <<payload, decoded>>

\* the block put in front: self.blocks.insert(0, block)
Append_block_front(block) ==
    /\ pc = "ready"
    /\ Len(self.blocks) < MaxBlocksOf(self.cls) + MaxOver
    /\ self' = [self EXCEPT !.blocks = <<block>> \o @]
    /\ raised' = NoError
    /\ built' = Absent
    /\ UNCHANGED <<payload, pc, decoded>>

\* self.blocks.append(block); return self
Append_block(block) ==
    /\ pc = "ready"
    /\ Len(self.blocks) < MaxBlocksOf(self.cls) + MaxOver
    /\ self' = [self EXCEPT !.blocks = Append(@, block)]
    /\ raised' = NoError
    /\ built' = Absent
    /\ UNCHANGED <<payload, pc, decoded>>

\* add_block(block), and the add_*_block methods, which are the same code
add_block == Append_block(FileArg)

add_section == Append_block(Section_create(SectionArg.f.text, None, None, None))

add_divider == Append_block(Divider_create(None))

add_header == Append_block(Header_create(S("Original Header"), None))

\* self.<name> = value; return self
Assign(name, value) ==
    /\ pc = "ready"
    /\ self' = [self EXCEPT !.f[name] = value]
    /\ raised' = NoError
    /\ built' = Absent
    /\ UNCHANGED <<payload, pc, decoded>>

set_response_type ==
    /\ pc = "ready" /\ self.cls = "Message"
    /\ \E response_type \in {S("in_channel"), S("ephemeral")} :
          Assign("response_type", response_type)

set_replace_original ==
    /\ pc = "ready" /\ self.cls = "Message"
    /\ \E replace \in {JBool(TRUE), JBool(FALSE)} : Assign("replace_original", replace)

set_delete_original ==
    /\ pc = "ready" /\ self.cls = "Message"
    /\ \E delete \in {JBool(TRUE), JBool(FALSE)} : Assign("delete_original", delete)

set_metadata ==
    /\ pc = "ready" /\ self.cls = "Message"
    /\ Assign("metadata", O([key |-> S("value")]))

\* Modal.set_submit .. Modal.set_external_id
Modal_set ==
    /\ pc = "ready" /\ self.cls = "Modal"
    /\ \/ \E name \in {"submit", "close", "private_metadata", "callback_id",
                       "external_id"} : Assign(name, S("x"))
       \/ \E name \in {"clear_on_close", "notify_on_close"} :
             \E value \in {JBool(TRUE), JBool(FALSE)} : Assign(name, value)

\* HomeTab.set_private_metadata, set_callback_id, set_external_id
HomeTab_set ==
    /\ pc = "ready" /\ self.cls = "HomeTab"
    /\ \E name \in DOMAIN HomeTabFields : Assign(name, S("x"))

\* self.build()
Built(r) ==
    /\ built' = IF r.ok THEN r.v ELSE Absent
    /\ raised' = IF r.ok THEN NoError ELSE r.err

Build ==
    /\ pc = "ready"
    /\ Built(build(self))
    /\ UNCHANGED <<payload, pc, self, decoded>>

\* Decoding: from_payload of any payload, then build
Next == FromPayloadOf(Payloads) \/ Build

Spec == Init /\ [][Next]_vars

\* The life of a container: made by a constructor or decoded from one of a
\* few payloads, grown by add_*, changed by set_*, built at any time
LifePayloads ==
    {O([blocks |-> L(<<>>)]),
     O([blocks |-> L(<<HeaderB>>)]),
     O([blocks |-> L(<<HeaderB, DividerId>>), response_type |-> S("ephemeral")]),
     O([blocks |-> L(<<>>), replace_original |-> JBool(FALSE), metadata |-> None]),
     O([blocks |-> L(<<HeaderB, DividerId, DividerB>>)])}

LifeNext ==
    \/ FromPayloadOf(LifePayloads)
    \/ NewMessage
    \/ NewModal
    \/ NewHomeTab
    \/ add_block
    \/ add_section
    \/ add_divider
    \/ add_header
    \/ set_response_type
    \/ set_replace_original
    \/ set_delete_original
    \/ set_metadata
    \/ Modal_set
    \/ HomeTab_set
    \/ Build

LifeSpec == Init /\ [][LifeNext]_vars

-----------------------------------------------------------------------------
(* Properties of from_payload and build.                                   *)

\* the value from_payload works on: the payload, or what a str payload
\* parses to (Absent before the call and for a text that is not JSON)
Parsed_payload ==
    IF payload = Absent THEN Absent
    ELSE IF ~IsStr(payload) THEN payload
    ELSE IF loads(payload.text).ok THEN loads(payload.text).v
    ELSE Absent

\* the entries of the payload's blocks list
Entries ==
    IF ~IsDict(Parsed_payload) THEN <<>>
    ELSE IF ~IsList(GetDefault(Parsed_payload, "blocks", JList(<<>>))) THEN <<>>
    ELSE GetDefault(Parsed_payload, "blocks", JList(<<>>)).xs

\* entry i is the first of the blocks list that does not decode
FirstDefective(i) ==
    /\ ~parse_entry(Entries[i]).ok
    /\ \A j \in 1..(i - 1) : parse_entry(Entries[j]).ok

\* the entries that do not decode
Defective == {i \in 1..Len(Entries) : ~parse_entry(Entries[i]).ok}

\* the fields of a payload the library recognises: the five top-level keys,
\* and in each block the keys of its kind (text objects and elements whole);
\* a missing list counts as the empty list
TopLevelKeys ==
    {"blocks", "response_type", "replace_original", "delete_original", "metadata"}
BlockKeys ==
    [section |-> {"text", "fields", "accessory"},
     divider |-> {},
     image |-> {"image_url", "alt_text", "title"},
     actions |-> {"elements"},
     context |-> {"elements"},
     input |-> {"label", "element", "hint", "optional", "dispatch_action"},
     file |-> {"external_id"},
     header |-> {"text"},
     video |-> {"title", "video_url", "title_url", "description", "thumbnail_url",
                "alt_text", "author_name", "provider_name", "provider_icon_url"},
     rich_text |-> {"elements"}]
Restrict(d, keys) == JObj([x \in DOMAIN d.f \cap keys |-> d.f[x]])
WithList(d, key) == IF HasKey(d, key) THEN d ELSE Put(d, key, JList(<<>>))
RecognisedBlock(b) ==
    LET kept == Restrict(b, {"type", "block_id"} \cup BlockKeys[b.f.type.s]) IN
    IF "elements" \in BlockKeys[b.f.type.s] THEN WithList(kept, "elements") ELSE kept
Recognised(P) ==
    Put(Restrict(P, TopLevelKeys), "blocks",
        JList([i \in 1..Len(Entries) |-> RecognisedBlock(Entries[i])]))

\* C1: for every payload from_payload accepts, build(from_payload(P)) equals
\* P restricted to the recognised fields (the top-level keys, and inside each
\* block its block_id, text objects with their flags, elements and their
\* optional fields).
C1_RoundTrip ==
    (pc = "ready" /\ payload # Absent /\ built # Absent)
        => built = Recognised(Parsed_payload)

\* the last operation was build()
Was_built == pc = "ready" /\ (built # Absent \/ raised # NoError)

\* C2: for every container kind, build fails with the limit error exactly
\* when the container holds more than its kind's maximum number of blocks,
\* however the blocks got there.
C2_BuildFailsIffOverCeiling ==
    Was_built =>
        ((raised.msg = "Number of blocks exceeds maximum")
            <=> (Len(self.blocks) > MaxBlocksOf(self.cls)))

\* C3 (as stated): in every reachable state of a container, len(blocks) is at
\* most the maximum of its kind.
C3_AtMostMaxAlways ==
    pc = "ready" => Len(self.blocks) <= MaxBlocksOf(self.cls)

\* C3: a container comes out of its constructor or of from_payload with at
\* most the maximum number of blocks of its kind, and a constructor given
\* more raises; afterwards set_* leaves the list alone and add_* grows it by
\* one block whatever its length.
C3_AtMostMaxWhenConstructed ==
    [][/\ (pc = "start" /\ pc' = "ready")
             => Len(self'.blocks) <= MaxBlocksOf(self'.cls)
       /\ (pc = "start" /\ pc' = "failed" /\ payload' = Absent)
             => raised'.msg = "Number of blocks exceeds maximum"
       /\ (pc = "ready" /\ self'.blocks # self.blocks)
             => /\ Len(self'.blocks) = Len(self.blocks) + 1
                /\ SubSeq(self'.blocks, 1, Len(self.blocks)) = self.blocks]_vars

\* a constructor refused a list longer than the maximum
C3_Witness ==
    /\ pc = "failed"
    /\ payload = Absent
    /\ raised.exc = "ValidationError"
    /\ raised.arg = JNum(MAX_BLOCKS_PER_MESSAGE + 1)

\* C4: when entries of the blocks list are defective, from_payload fails with
\* the error of the defective entry of lowest index, having decoded the
\* entries before it and none after it, and returns no message.
C4_FailFast ==
    \A i \in 1..Len(Entries) :
        FirstDefective(i) =>
            /\ pc = "failed"
            /\ self = Absent
            /\ raised = parse_entry(Entries[i]).err
            /\ decoded = [j \in 1..(i - 1) |-> parse_entry(Entries[j]).v]

\* two entries with different defects, after an entry that decoded
C4_Witness ==
    /\ pc = "failed"
    /\ Len(decoded) = 1
    /\ Defective = {2, 3}
    /\ parse_entry(Entries[2]).err # parse_entry(Entries[3]).err
    /\ raised = parse_entry(Entries[2]).err

\* C5: the message decoded from an accepted payload has as many blocks as the
\* payload's blocks list, and its i-th block has the kind and the block_id of
\* the i-th entry.
C5_BlocksInOrder ==
    (pc = "ready" /\ payload # Absent) =>
        /\ Len(self.blocks) = Len(Entries)
        /\ \A i \in 1..Len(Entries) :
              /\ self.blocks[i].f.type = Get(Entries[i], "type")
              /\ self.blocks[i].f.block_id = Get(Entries[i], "block_id")

\* two blocks of different kinds, one with a block_id and one without
C5_Witness ==
    /\ pc = "ready"
    /\ Len(Entries) = 2
    /\ self.blocks[1].f.type = S("header")
    /\ self.blocks[2].f.type = S("divider")
    /\ self.blocks[1].f.block_id # self.blocks[2].f.block_id

\* the outcome of from_payload(p) is the outcome the state holds
Same_outcome(r) ==
    /\ r.ok <=> pc = "ready"
    /\ r.ok => self = r.v
    /\ ~r.ok => raised = r.err
    /\ decoded = r.parsed

\* C6: for a dictionary P, from_payload of the JSON text of P has the outcome
\* of from_payload(P): the same message, or the same failure.
C6_StringAsDict ==
    (payload # Absent /\ IsDict(payload))
        => Same_outcome(from_payload(JText(dumps(payload))))

\* a dictionary that is accepted, with a block and the four properties
C6_Witness ==
    /\ payload # Absent /\ IsDict(payload)
    /\ pc = "ready"
    /\ Len(self.blocks) = 1
    /\ self.f.response_type = S("ephemeral")
    /\ self.f.metadata # None

\* C7: from_payload fails with "Blocks must be a list" for every payload
\* whose blocks key holds a value that is not a list (null, a string, a
\* number, an object).
C7_BlocksMustBeAList ==
    (IsDict(Parsed_payload) /\ HasKey(Parsed_payload, "blocks")
        /\ ~IsList(Parsed_payload.f.blocks))
        => /\ pc = "failed"
           /\ raised = ValueError("Blocks must be a list").err

\* C8: from_payload fails with "Payload must be a dictionary" whenever the
\* top-level value, given directly or parsed from a JSON text, is not an
\* object.
C8_PayloadMustBeADict ==
    (Parsed_payload # Absent /\ ~IsDict(Parsed_payload))
        => /\ pc = "failed"
           /\ self = Absent
           /\ raised = ValueError("Payload must be a dictionary").err
           /\ decoded = <<>>

\* the text "[]": well-formed JSON, not an object
C8_Witness ==
    /\ payload = JText(<<Tok("["), Tok("]")>>)
    /\ pc = "failed"
    /\ raised.msg = "Payload must be a dictionary"

\* C9: for a str payload that is not well-formed JSON, from_payload fails
\* with "Invalid JSON payload" carrying the parser's diagnostic, and no
\* block is decoded.
C9_InvalidJSON ==
    (payload # Absent /\ IsStr(payload) /\ ~loads(payload.text).ok)
        => /\ pc = "failed"
           /\ self = Absent
           /\ raised.exc = "ValueError"
           /\ raised.msg = "Invalid JSON payload"
           /\ raised.arg = [k |-> "JSONDecodeError", msg |-> loads(payload.text).msg,
                            pos |-> loads(payload.text).pos]
           /\ decoded = <<>>

\* a text whose defect the parser finds after the blocks list: a missing
\* delimiter
C9_Witness ==
    /\ payload # Absent /\ IsStr(payload)
    /\ pc = "failed"
    /\ raised.msg = "Invalid JSON payload"
    /\ raised.arg.msg = "Expecting ',' delimiter"
    /\ raised.arg.pos > 4

\* C10: from_payload fails with "Each block must be a dictionary" when an
\* entry of the blocks list is not an object and every entry before it
\* decoded.
C10_EachBlockMustBeADict ==
    \A i \in 1..Len(Entries) :
        (FirstDefective(i) /\ ~IsDict(Entries[i]))
            => /\ pc = "failed"
               /\ raised = ValueError("Each block must be a dictionary").err
               /\ Len(decoded) = i - 1

\* an entry that is not an object, after two that decoded
C10_Witness ==
    /\ pc = "failed"
    /\ Len(Entries) = 3
    /\ ~IsDict(Entries[3])
    /\ Len(decoded) = 2
    /\ raised.msg = "Each block must be a dictionary"

\* the first entry of the blocks list that does not decode (0 when every
\* entry decodes), and that entry
First_defect ==
    IF Defective = {} THEN 0
    ELSE CHOOSE i \in Defective : \A j \in Defective : i <= j
Culprit == Entries[First_defect]

\* t is a str naming one of kinds
KindIn(t, kinds) == IsStr(t) /\ t.s \in kinds

\* the culprit is an actions block over a list of objects: the first of its
\* elements that does not decode
Actions_culprit ==
    /\ First_defect > 0
    /\ IsDict(Culprit)
    /\ Get(Culprit, "type") = S("actions")
    /\ IsList(GetDefault(Culprit, "elements", L(<<>>)))
    /\ \A j \in 1..Len(Culprit.f.elements.xs) : IsDict(Culprit.f.elements.xs[j])
Bad_element ==
    LET xs == Culprit.f.elements.xs IN
    xs[CHOOSE j \in 1..Len(xs) :
          /\ ~parse_element(xs[j]).ok
          /\ \A h \in 1..(j - 1) : parse_element(xs[h]).ok]

\* the culprit is a header block whose text is an object
Header_culprit ==
    /\ First_defect > 0
    /\ IsDict(Culprit)
    /\ Get(Culprit, "type") = S("header")
    /\ IsDict(Get(Culprit, "text"))

\* C11 (as stated): a type that is present and matches no known variant fails
\* with the unsupported-kind error naming it, at the block and the text level.
C11_UnsupportedWhenPresent ==
    /\ (First_defect > 0 /\ IsDict(Culprit) /\ HasKey(Culprit, "type")
            /\ ~KindIn(Culprit.f.type, BlockKinds))
          => raised = ValueErrorOf("Unsupported block type", Culprit.f.type).err
    /\ (Header_culprit /\ HasKey(Culprit.f.text, "type")
            /\ ~KindIn(Culprit.f.text.f.type, TextKinds))
          => raised = ValueErrorOf("Unsupported text type", Culprit.f.text.f.type).err

\* C11: at the block, element and text-object level, a type that is set to
\* a non-empty value matching no known variant fails with the unsupported-kind
\* error carrying that value (for a text object, provided its text is there:
\* the check of type and text comes first); a type among the 10 block kinds,
\* 24 element kinds and 2 text kinds is never reported unsupported, and only
\* those kinds are accepted.
C11_UnsupportedKind ==
    /\ Cardinality(BlockKinds) = 10
    /\ Cardinality(ElementKinds) = 24
    /\ Cardinality(TextKinds) = 2
    /\ (First_defect > 0 /\ IsDict(Culprit)) =>
          /\ (Truthy(Get(Culprit, "type")) /\ ~KindIn(Get(Culprit, "type"), BlockKinds))
                => raised = ValueErrorOf("Unsupported block type", Culprit.f.type).err
          /\ KindIn(Get(Culprit, "type"), BlockKinds)
                => raised.msg # "Unsupported block type"
    /\ Actions_culprit =>
          /\ (Truthy(Get(Bad_element, "type"))
                /\ ~KindIn(Get(Bad_element, "type"), ElementKinds))
                => raised = ValueErrorOf("Unsupported element type",
                                         Bad_element.f.type).err
          /\ KindIn(Get(Bad_element, "type"), ElementKinds)
                => raised.msg # "Unsupported element type"
    /\ Header_culprit =>
          /\ (Truthy(Get(Culprit.f.text, "type")) /\ Truthy(Get(Culprit.f.text, "text"))
                /\ ~KindIn(Get(Culprit.f.text, "type"), TextKinds))
                => raised = ValueErrorOf("Unsupported text type",
                                         Culprit.f.text.f.type).err
          /\ KindIn(Get(Culprit.f.text, "type"), TextKinds)
                => raised.msg # "Unsupported text type"
    /\ (pc = "ready" /\ payload # Absent) =>
          \A i \in 1..Len(Entries) :
             /\ KindIn(Get(Entries[i], "type"), BlockKinds)
             /\ Get(Entries[i], "type") = S("actions") =>
                   \A j \in 1..Len(GetDefault(Entries[i], "elements", L(<<>>)).xs) :
                      KindIn(Get(Entries[i].f.elements.xs[j], "type"), ElementKinds)
             /\ Get(Entries[i], "type") = S("header") =>
                   KindIn(Get(Entries[i].f.text, "type"), TextKinds)

\* an element of a kind no table knows, after a button that decoded
C11_Witness ==
    /\ pc = "failed"
    /\ Actions_culprit
    /\ Len(Culprit.f.elements.xs) = 2
    /\ raised = ValueErrorOf("Unsupported element type", S("slider")).err

\* the fields the decoder of a block or element type tests before it builds
\* the object
BlockRequired(t) ==
    CASE t = "image" -> {"image_url", "alt_text"}
      [] t = "video" -> {"title", "video_url"}
      [] t = "input" -> {"label", "element"}
      [] t = "file" -> {"external_id"}
      [] t = "header" -> {"text"}
      [] OTHER -> {}
ElementRequired(t) ==
    CASE t = "button" -> {"text", "action_id"}
      [] t = "image" -> {"image_url", "alt_text"}
      [] t \in DOMAIN StaticSelectClass \cup DOMAIN SelectClass ->
            {"action_id", "placeholder"}
      [] OTHER -> {"action_id"}

\* the fields an error message names
FieldsNamed(msg) ==
    CASE msg = "Button must have text and action_id" -> {"text", "action_id"}
      [] msg = "Option must have text and value" -> {"text", "value"}
      [] msg = "must have action_id" -> {"action_id"}
      [] msg = "must have action_id and placeholder" -> {"action_id", "placeholder"}
      [] msg \in {"Image element must have image_url and alt_text",
                  "Image block must have image_url and alt_text"} ->
            {"image_url", "alt_text"}
      [] msg = "Video block must have title and video_url" -> {"title", "video_url"}
      [] msg = "Input block must have a label" -> {"label"}
      [] msg = "Input block must have an element" -> {"element"}
      [] msg = "File block must have external_id" -> {"external_id"}
      [] msg = "Header block must have text" -> {"text"}
      [] msg = "Text object must have type and text" -> {"type", "text"}
      [] OTHER -> {}

\* the fields among fs that d does not have, and those that are missing or empty
Absent_in(d, fs) == {f \in fs : ~HasKey(d, f)}
Lacking(d, fs) == {f \in fs : ~Truthy(Get(d, f))}

\* the culprit is a block of a known type with a required field absent
Block_lacks ==
    /\ First_defect > 0
    /\ IsDict(Culprit)
    /\ KindIn(Get(Culprit, "type"), BlockKinds)
    /\ Lacking(Culprit, BlockRequired(Culprit.f.type.s)) # {}
\* the culprit's bad element is of a known type with a required field absent
Element_lacks ==
    /\ Actions_culprit
    /\ KindIn(Get(Bad_element, "type"), ElementKinds)
    /\ Lacking(Bad_element, ElementRequired(Bad_element.f.type.s)) # {}
\* the culprit's bad element is a checkboxes group whose only option lacks a
\* required field
Option_lacks ==
    /\ Actions_culprit
    /\ Get(Bad_element, "type") = S("checkboxes")
    /\ Truthy(Get(Bad_element, "action_id"))
    /\ IsList(Get(Bad_element, "options"))
    /\ Len(Bad_element.f.options.xs) = 1
    /\ IsDict(Bad_element.f.options.xs[1])
    /\ Lacking(Bad_element.f.options.xs[1], {"text", "value"}) # {}

\* C12 (as stated): when a required field of a variant is absent, the error
\* names the fields that are actually missing, and not the ones that are there.
C12_NamesTheMissingField ==
    /\ Block_lacks =>
          FieldsNamed(raised.msg) = Lacking(Culprit, BlockRequired(Culprit.f.type.s))
    /\ Element_lacks =>
          FieldsNamed(raised.msg)
             = Lacking(Bad_element, ElementRequired(Bad_element.f.type.s))
    /\ Option_lacks =>
          FieldsNamed(raised.msg) = Lacking(Bad_element.f.options.xs[1], {"text", "value"})

\* C12: when a required field of a variant is absent or empty, decode fails
\* with a ValueError naming the fields the variant's check covers: the missing
\* field alone where the check is on one field (action_id, external_id, a
\* header's text, an input's label), both fields where the check is on two
\* (button, image, video, option, the selects), whichever of the two is
\* missing.
C12_NamesTheCheckedFields ==
    /\ Block_lacks =>
          /\ raised.exc = "ValueError"
          /\ Culprit.f.type.s # "input" =>
                FieldsNamed(raised.msg) = BlockRequired(Culprit.f.type.s)
          /\ (Culprit.f.type.s = "input" /\ ~Truthy(Get(Culprit, "label"))) =>
                FieldsNamed(raised.msg) = {"label"}
    /\ Element_lacks =>
          /\ raised.exc = "ValueError"
          /\ FieldsNamed(raised.msg) = ElementRequired(Bad_element.f.type.s)
    /\ Option_lacks =>
          raised = ValueError("Option must have text and value").err

\* a button that has its text and lacks only action_id
C12_Witness ==
    /\ pc = "failed"
    /\ Element_lacks
    /\ Bad_element.f.type = S("button")
    /\ Absent_in(Bad_element, {"text", "action_id"}) = {"action_id"}
    /\ raised = ValueError("Button must have text and action_id").err

\* C13: a header block whose text object has type mrkdwn is rejected; every
\* header of a decoded payload comes from a plain_text text object.
C13_HeaderOnlyFromPlainText ==
    (pc = "ready" /\ payload # Absent) =>
       \A i \in 1..Len(Entries) :
          Get(Entries[i], "type") = S("header") =>
             Get(Entries[i].f.text, "type") = S("plain_text")

\* the optional flag of a text object of the payload (emoji of plain_text,
\* verbatim of mrkdwn), and the flag of a decoded text object
FlagName(text_data) ==
    IF Get(text_data, "type") = S("plain_text") THEN "emoji" ELSE "verbatim"
Flag(text) == IF text.cls = "PlainText" THEN text.f.emoji ELSE text.f.verbatim

\* the decoded text object keeps the payload's flag: unset when the key is
\* absent, false when it is false, true when it is true
Flag_kept(text_data, text) ==
    /\ ~HasKey(text_data, FlagName(text_data)) => Flag(text) = None
    /\ Get(text_data, FlagName(text_data)) = JBool(FALSE) => Flag(text) = JBool(FALSE)
    /\ Get(text_data, FlagName(text_data)) = JBool(TRUE) => Flag(text) = JBool(TRUE)
    /\ Flag(text) # None => HasKey(text_data, FlagName(text_data))

\* C14: a decoded text object (the text and the fields of a section) has its
\* emoji / verbatim flag unset when the payload's text object does not have
\* it, false when it is false and true when it is true.
C14_FlagHasThreeStates ==
    (pc = "ready" /\ payload # Absent) =>
       \A i \in 1..Len(Entries) :
          Get(Entries[i], "type") = S("section") =>
             /\ HasKey(Entries[i], "text") =>
                   Flag_kept(Entries[i].f.text, self.blocks[i].f.text)
             /\ Truthy(Get(Entries[i], "fields")) =>
                   \A j \in 1..Len(Entries[i].f.fields.xs) :
                      Flag_kept(Entries[i].f.fields.xs[j],
                                self.blocks[i].f.fields.xs[j])

\* a section decoded with flags unset, false and true
C14_Witness ==
    /\ pc = "ready"
    /\ Entries = <<SectionFlags>>
    /\ Flag(self.blocks[1].f.text) = JBool(TRUE)
    /\ Flag(self.blocks[1].f.fields.xs[1]) = None
    /\ Flag(self.blocks[1].f.fields.xs[2]) = JBool(FALSE)
    /\ Flag(self.blocks[1].f.fields.xs[3]) = None
    /\ Flag(self.blocks[1].f.fields.xs[4]) = JBool(FALSE)
    /\ Flag(self.blocks[1].f.fields.xs[5]) = JBool(TRUE)

\* C15: a decoded header block is a Header with the payload's block_id and
\* text string, and its text's emoji flag is unset whatever the payload's
\* text object says about emoji.
C15_HeaderTextWithoutEmoji ==
    (pc = "ready" /\ payload # Absent) =>
       \A i \in 1..Len(Entries) :
          Get(Entries[i], "type") = S("header") =>
             /\ self.blocks[i].cls = "Header"
             /\ self.blocks[i].f.type = S("header")
             /\ self.blocks[i].f.block_id = Get(Entries[i], "block_id")
             /\ self.blocks[i].f.text
                   = PlainText_create(Entries[i].f.text.f.text, None)

\* the header of the test: block_id test_header, emoji: true in the payload
C15_Witness ==
    /\ pc = "ready"
    /\ Len(Entries) = 1
    /\ Get(Entries[1], "type") = S("header")
    /\ Get(Entries[1].f.text, "emoji") = JBool(TRUE)
    /\ self.blocks[1].f.block_id = S("test_header")
    /\ self.blocks[1].f.text.f.text = S("Test Header")
    /\ self.blocks[1].f.text.f.emoji = None

\* C16: after a successful from_payload the message's response_type is
\* in_channel, ephemeral or unset.
C16_ResponseTypeInEnum ==
    (pc = "ready" /\ payload # Absent) =>
       self.f.response_type \in {None, S("in_channel"), S("ephemeral")}

\* C17: after a successful from_payload, each of response_type,
\* replace_original, delete_original and metadata that the payload has is set
\* on the message to the payload's value (false stays false), and each one the
\* payload does not have is unset.
C17_PropertiesAsInPayload ==
    (pc = "ready" /\ payload # Absent) =>
       \A name \in DOMAIN MessageFields :
          self.f[name] = IF HasKey(Parsed_payload, name)
                         THEN Parsed_payload.f[name]
                         ELSE None

\* a payload with replace_original: false and no response_type
C17_Witness ==
    /\ pc = "ready"
    /\ payload # Absent
    /\ HasKey(Parsed_payload, "replace_original")
    /\ ~HasKey(Parsed_payload, "response_type")
    /\ self.f.replace_original = JBool(FALSE)
    /\ self.f.response_type = None

\* the last operation was a build() that returned, on a decoded message
Built_from_payload == pc = "ready" /\ payload # Absent /\ built # Absent

OptionalFields(cls) ==
    CASE cls = "Message" -> DOMAIN MessageFields
      [] cls = "Modal" -> DOMAIN ModalFields
      [] cls = "HomeTab" -> DOMAIN HomeTabFields

\* C19: for every container kind, what build returns has an optional
\* top-level key exactly when that field is set on the container, no top-level
\* key has a null value, and blocks is always there (with type for a modal and
\* a home tab, and title for a modal).
C19_OptionalKeyIffSet ==
    (pc = "ready" /\ built # Absent) =>
       /\ \A name \in OptionalFields(self.cls) :
             HasKey(built, name) <=> self.f[name] # None
       /\ \A key \in DOMAIN built.f : built.f[key] # None
       /\ HasKey(built, "blocks")
       /\ self.cls \in {"Modal", "HomeTab"} => HasKey(built, "type")
       /\ self.cls = "Modal" => HasKey(built, "title")

\* a message decoded from a payload with metadata: null and
\* replace_original: false, built
C19_Witness ==
    /\ pc = "ready"
    /\ built # Absent
    /\ self.cls = "Message"
    /\ payload # Absent
    /\ HasKey(Parsed_payload, "metadata")
    /\ ~HasKey(built, "metadata")
    /\ HasKey(built, "replace_original")

\* the keys a decoder fills in when the payload's block does not have them:
\* the elements list of an actions, context or rich_text block
DefaultedKeys(block_data) ==
    IF Get(block_data, "type") \in {S("actions"), S("context"), S("rich_text")}
    THEN {"elements"}
    ELSE {}

\* C20 (as stated): every top-level key of build(from_payload(P)) is a key
\* of P, also when P has no blocks key, and every key of each built block is a
\* key of the corresponding block of P.
C20_NoKeyIntroduced ==
    Built_from_payload =>
       /\ DOMAIN built.f \subseteq DOMAIN Parsed_payload.f
       /\ \A i \in 1..Len(Entries) :
             DOMAIN built.f.blocks.xs[i].f \subseteq DOMAIN Entries[i].f

\* C20: every top-level key of build(from_payload(P)) is a key of P or is
\* blocks, which build always emits (the empty list when P has no blocks);
\* every key of each built block is a key of the corresponding block of P or
\* is the elements list the decoder defaulted to empty.
C20_NoKeyIntroducedButDefaults ==
    Built_from_payload =>
       /\ DOMAIN built.f \subseteq DOMAIN Parsed_payload.f \cup {"blocks"}
       /\ HasKey(built, "blocks")
       /\ ~HasKey(Parsed_payload, "blocks") => built.f.blocks = L(<<>>)
       /\ Len(built.f.blocks.xs) = Len(Entries)
       /\ \A i \in 1..Len(Entries) :
             /\ DOMAIN built.f.blocks.xs[i].f
                   \subseteq DOMAIN Entries[i].f \cup DefaultedKeys(Entries[i])
             /\ \A key \in DOMAIN built.f.blocks.xs[i].f \ DOMAIN Entries[i].f :
                   built.f.blocks.xs[i].f[key] = L(<<>>)

\* a payload without a blocks key, decoded and built
C20_Witness ==
    /\ Built_from_payload
    /\ ~HasKey(Parsed_payload, "blocks")
    /\ HasKey(Parsed_payload, "response_type")
    /\ DOMAIN built.f = {"blocks", "response_type"}

\* C21: from_payload of a payload with n blocks leaves the n decoded blocks
\* in payload order; from then on every add_* puts one block at the end,
\* set_* leaves the blocks as they are, and build emits all the blocks of the
\* message, the decoded ones first and the appended ones after them in call
\* order.
C21_DecodeModifyRebuild ==
    [][/\ (pc = "start" /\ pc' = "ready" /\ payload' # Absent)
             => /\ self'.blocks = decoded'
                /\ Len(decoded') = Len(Entries')
       /\ (pc = "ready" /\ payload # Absent)
             => /\ decoded' = decoded
                /\ SubSeq(self'.blocks, 1, Len(decoded)) = decoded
                /\ self'.f # self.f => self'.blocks = self.blocks
                /\ self'.blocks # self.blocks
                      => /\ Len(self'.blocks) = Len(self.blocks) + 1
                         /\ SubSeq(self'.blocks, 1, Len(self.blocks)) = self.blocks
                         /\ self'.f = self.f
                /\ Build => built' # Absent
                /\ built' # Absent
                      => /\ self' = self
                         /\ built'.f.blocks = build_blocks(self.blocks)
                         /\ Len(built'.f.blocks.xs) = Len(self.blocks)]_vars

\* the header-only payload decoded, a property set, a section appended, built
C21_Witness ==
    /\ pc = "ready"
    /\ payload # Absent
    /\ Len(decoded) = 1
    /\ self.f.replace_original = JBool(TRUE)
    /\ built # Absent
    /\ Len(built.f.blocks.xs) = 2
    /\ built.f.blocks.xs[1].f.type = S("header")
    /\ built.f.blocks.xs[2].f.type = S("section")

\* a text object of the payload with a known type and a non-empty text string
TextOK(text_data) ==
    /\ KindIn(Get(text_data, "type"), TextKinds)
    /\ IsStr(Get(text_data, "text"))
    /\ Get(text_data, "text").s # ""

\* block_data is a section whose only content is a text object
Text_section(block_data) ==
    /\ IsDict(block_data)
    /\ Get(block_data, "type") = S("section")
    /\ DOMAIN block_data.f \subseteq {"type", "block_id", "text"}
    /\ HasKey(block_data, "text")
    /\ IsDict(block_data.f.text)

\* C22: a text object (the text of a section) decodes exactly when its type
\* is plain_text or mrkdwn and its text is a non-empty string; a missing or
\* empty type or text fails with "Text object must have type and text", an
\* unknown type over a text with the unsupported-kind error; the decoded
\* object has the kind and the text string of the input.
C22_TextObjectDecode ==
    /\ (pc = "ready" /\ payload # Absent) =>
          \A i \in 1..Len(Entries) :
             Text_section(Entries[i]) =>
                /\ TextOK(Entries[i].f.text)
                /\ self.blocks[i].f.text.f.type = Entries[i].f.text.f.type
                /\ self.blocks[i].f.text.f.text = Entries[i].f.text.f.text
    /\ (First_defect > 0 /\ Text_section(Culprit)) =>
          /\ ~TextOK(Culprit.f.text)
          /\ raised =
                IF ~Truthy(Get(Culprit.f.text, "type")) \/ ~Truthy(Get(Culprit.f.text, "text"))
                THEN ValueError("Text object must have type and text").err
                ELSE ValueErrorOf("Unsupported text type", Culprit.f.text.f.type).err

\* a mrkdwn text object with an empty text was refused
C22_Witness ==
    /\ pc = "failed"
    /\ First_defect > 0
    /\ Text_section(Culprit)
    /\ Get(Culprit.f.text, "type") = S("mrkdwn")
    /\ Get(Culprit.f.text, "text") = S("")
    /\ raised = ValueError("Text object must have type and text").err

\* block_data is an actions block over one checkboxes group with one option,
\* and that option
Option_entry(block_data) ==
    /\ IsDict(block_data)
    /\ Get(block_data, "type") = S("actions")
    /\ IsList(Get(block_data, "elements"))
    /\ Len(block_data.f.elements.xs) = 1
    /\ IsDict(block_data.f.elements.xs[1])
    /\ DOMAIN block_data.f.elements.xs[1].f = {"type", "action_id", "options"}
    /\ block_data.f.elements.xs[1].f.type = S("checkboxes")
    /\ Truthy(block_data.f.elements.xs[1].f.action_id)
    /\ IsList(block_data.f.elements.xs[1].f.options)
    /\ Len(block_data.f.elements.xs[1].f.options.xs) = 1
    /\ IsDict(block_data.f.elements.xs[1].f.options.xs[1])
OptionOf(block_data) == block_data.f.elements.xs[1].f.options.xs[1]

\* a well-formed text object
TextWellFormed(text_data) == IsDict(text_data) /\ TextOK(text_data)

\* the option has its text and value, and its text objects are well-formed
OptionOK(o) ==
    /\ Truthy(Get(o, "value"))
    /\ HasKey(o, "text")
    /\ TextWellFormed(o.f.text)
    /\ HasKey(o, "description") => TextWellFormed(o.f.description)

\* C23: an option without text or value fails with "Option must have text
\* and value"; one whose text or description is a malformed text object fails
\* too; any other option decodes to an Option with the input's text string
\* and value, and with description and url set exactly when the input has
\* them.
C23_OptionDecode ==
    /\ (pc = "ready" /\ payload # Absent) =>
          \A i \in 1..Len(Entries) :
             Option_entry(Entries[i]) =>
                /\ OptionOK(OptionOf(Entries[i]))
                /\ self.blocks[i].f.elements.xs[1].f.options.xs[1]
                      = Option_create(
                           OptionOf(Entries[i]).f.text.f.text,
                           OptionOf(Entries[i]).f.value,
                           IF HasKey(OptionOf(Entries[i]), "description")
                           THEN OptionOf(Entries[i]).f.description.f.text
                           ELSE None,
                           Get(OptionOf(Entries[i]), "url"))
    /\ (First_defect > 0 /\ Option_entry(Culprit)) =>
          /\ ~OptionOK(OptionOf(Culprit))
          /\ raised.exc = "ValueError"
          /\ Lacking(OptionOf(Culprit), {"text", "value"}) # {}
                => raised = ValueError("Option must have text and value").err
          /\ Lacking(OptionOf(Culprit), {"text", "value"}) = {}
                => raised.msg \in {"Text object must have type and text",
                                   "Unsupported text type"}

\* an option with text and value whose description has no text was refused
C23_Witness ==
    /\ pc = "failed"
    /\ First_defect > 0
    /\ Option_entry(Culprit)
    /\ Lacking(OptionOf(Culprit), {"text", "value"}) = {}
    /\ TextWellFormed(OptionOf(Culprit).f.text)
    /\ HasKey(OptionOf(Culprit), "description")
    /\ raised = ValueError("Text object must have type and text").err

\* the keys of a block of type t that hold a text object
TextKeys(t) ==
    CASE t \in {"section", "header"} -> {"text"}
      [] t \in {"image", "video"} -> {"title"}
      [] t = "input" -> {"label", "hint"}
      [] OTHER -> {}

\* a list of dicts
DictList(v) == IsList(v) /\ \A j \in 1..Len(v.xs) : IsDict(v.xs[j])

\* the nested values of a block are well-formed: its text objects, its
\* elements and its lists decode (a required field that is empty counts as
\* absent)
NestedWellFormed(b) ==
    /\ \A key \in TextKeys(b.f.type.s) \cap DOMAIN b.f :
          (key \notin BlockRequired(b.f.type.s) \/ Truthy(b.f[key]))
             => TextWellFormed(b.f[key])
    /\ (b.f.type.s = "section" /\ HasKey(b, "fields"))
          => /\ DictList(b.f.fields)
             /\ \A j \in 1..Len(b.f.fields.xs) : TextOK(b.f.fields.xs[j])
    /\ (b.f.type.s = "section" /\ HasKey(b, "accessory"))
          => IsDict(b.f.accessory) /\ parse_element(b.f.accessory).ok
    /\ (b.f.type.s = "input" /\ Truthy(Get(b, "element")))
          => IsDict(b.f.element) /\ parse_element(b.f.element).ok
    /\ (b.f.type.s = "actions" /\ HasKey(b, "elements"))
          => /\ DictList(b.f.elements)
             /\ \A j \in 1..Len(b.f.elements.xs) : parse_element(b.f.elements.xs[j]).ok
    /\ (b.f.type.s = "context" /\ HasKey(b, "elements"))
          => /\ DictList(b.f.elements)
             /\ \A j \in 1..Len(b.f.elements.xs) :
                   parse_context_element(b.f.elements.xs[j]).ok
    /\ (b.f.type.s = "rich_text" /\ HasKey(b, "elements")) => IsList(b.f.elements)

\* C24: a block of a known kind whose nested values are well-formed fails
\* to decode exactly when a required field of its kind is absent (or empty):
\* text for a header; image_url, alt_text for an image; label, element for an
\* input; external_id for a file; title, video_url for a video; nothing for a
\* divider, section, actions, context or rich_text block.
C24_BlockRequiredFields ==
    /\ \A t \in {"divider", "section", "actions", "context", "rich_text"} :
          BlockRequired(t) = {}
    /\ (pc = "ready" /\ payload # Absent) =>
          \A i \in 1..Len(Entries) :
             Lacking(Entries[i], BlockRequired(Entries[i].f.type.s)) = {}
    /\ (First_defect > 0 /\ IsDict(Culprit) /\ KindIn(Get(Culprit, "type"), BlockKinds))
          => \/ ~NestedWellFormed(Culprit)
             \/ /\ Lacking(Culprit, BlockRequired(Culprit.f.type.s)) # {}
                /\ raised.exc = "ValueError"
                /\ FieldsNamed(raised.msg) \cap Lacking(Culprit, BlockRequired(Culprit.f.type.s)) # {}

\* an input block with its label and no element was refused
C24_Witness ==
    /\ pc = "failed"
    /\ First_defect > 0
    /\ IsDict(Culprit)
    /\ Get(Culprit, "type") = S("input")
    /\ NestedWellFormed(Culprit)
    /\ Lacking(Culprit, {"label", "element"}) = {"element"}
    /\ raised = ValueError("Input block must have an element").err

\* the ten select kinds
SelectKinds ==
    {"static_select", "external_select", "users_select", "conversations_select",
     "channels_select", "multi_static_select", "multi_external_select",
     "multi_users_select", "multi_conversations_select", "multi_channels_select"}

\* a list of well-formed options
OptionList(v) == DictList(v) /\ \A j \in 1..Len(v.xs) : OptionOK(v.xs[j])

\* the nested values of an element are well-formed: its text, its placeholder
\* and its options decode (a required field that is empty counts as absent)
ElementWellFormed(el) ==
    /\ \A key \in {"text", "placeholder"} \cap ElementRequired(el.f.type.s) :
          Truthy(Get(el, key)) => TextWellFormed(el.f[key])
    /\ \A key \in {"options", "initial_options"} \cap DOMAIN el.f :
          el.f.type.s \in {"checkboxes", "radio_buttons", "overflow", "static_select",
                           "multi_static_select"}
             => OptionList(el.f[key])

\* C25: the decoder of each element kind requires exactly the fields of its
\* kind: action_id for every kind but image, text too for a button,
\* placeholder too for the ten select kinds, image_url and alt_text for an
\* image.  An element of a known kind whose nested values are well-formed
\* fails to decode exactly when one of these fields is absent (or empty).
C25_ElementRequiredFields ==
    /\ \A t \in ElementKinds :
          ElementRequired(t) =
             CASE t = "image" -> {"image_url", "alt_text"}
               [] t = "button" -> {"action_id", "text"}
               [] t \in SelectKinds -> {"action_id", "placeholder"}
               [] OTHER -> {"action_id"}
    /\ (pc = "ready" /\ payload # Absent) =>
          \A i \in 1..Len(Entries) :
             Get(Entries[i], "type") = S("actions") =>
                \A j \in 1..Len(GetDefault(Entries[i], "elements", L(<<>>)).xs) :
                   Lacking(Entries[i].f.elements.xs[j],
                           ElementRequired(Entries[i].f.elements.xs[j].f.type.s)) = {}
    /\ (Actions_culprit /\ KindIn(Get(Bad_element, "type"), ElementKinds))
          => \/ ~ElementWellFormed(Bad_element)
             \/ /\ Lacking(Bad_element, ElementRequired(Bad_element.f.type.s)) # {}
                /\ raised.exc = "ValueError"
                /\ FieldsNamed(raised.msg)
                      \cap Lacking(Bad_element, ElementRequired(Bad_element.f.type.s)) # {}

\* a multi_users_select with its action_id and no placeholder was refused
C25_Witness ==
    /\ pc = "failed"
    /\ Actions_culprit
    /\ Get(Bad_element, "type") = S("multi_users_select")
    /\ Lacking(Bad_element, {"action_id", "placeholder"}) = {"placeholder"}
    /\ raised = ValueErrorOf("must have action_id and placeholder",
                             JStr("MultiUsersSelect")).err

\* d is a dict with no type, or an empty one
Typeless(d) == IsDict(d) /\ ~Truthy(Get(d, "type"))

\* the culprit is a block of type t whose element at a single position (the
\* only thing the decoder reads before it) has no type
Typeless_accessory ==
    /\ First_defect > 0
    /\ IsDict(Culprit)
    /\ Get(Culprit, "type") = S("section")
    /\ DOMAIN Culprit.f \subseteq {"type", "block_id", "accessory"}
    /\ HasKey(Culprit, "accessory")
    /\ Typeless(Culprit.f.accessory)
Typeless_input_element ==
    /\ First_defect > 0
    /\ IsDict(Culprit)
    /\ Get(Culprit, "type") = S("input")
    /\ TextWellFormed(Get(Culprit, "label"))
    /\ Truthy(Get(Culprit, "element"))
    /\ Typeless(Culprit.f.element)
Typeless_context_element ==
    /\ First_defect > 0
    /\ IsDict(Culprit)
    /\ Get(Culprit, "type") = S("context")
    /\ DictList(Get(Culprit, "elements"))
    /\ Len(Culprit.f.elements.xs) > 0
    /\ Typeless(Culprit.f.elements.xs[1])

\* C26: a block object with no type (or an empty one) fails with "Block
\* must have a type", an element object with no type (or an empty one) with
\* "Element must have a type", whatever their other fields hold; neither is
\* the unsupported-kind error, and no payload with such an object is accepted.
C26_TypeRequired ==
    /\ (First_defect > 0 /\ Typeless(Culprit))
          => raised = ValueError("Block must have a type").err
    /\ (Actions_culprit /\ Typeless(Bad_element))
          => raised = ValueError("Element must have a type").err
    /\ (Typeless_accessory \/ Typeless_input_element \/ Typeless_context_element)
          => raised = ValueError("Element must have a type").err
    /\ raised.msg \in {"Block must have a type", "Element must have a type"}
          => raised.arg = None
    /\ (pc = "ready" /\ payload # Absent) =>
          \A i \in 1..Len(Entries) :
             /\ ~Typeless(Entries[i])
             /\ Get(Entries[i], "type") = S("actions") =>
                   \A j \in 1..Len(GetDefault(Entries[i], "elements", L(<<>>)).xs) :
                      ~Typeless(Entries[i].f.elements.xs[j])

\* a button with no type and no action_id either, after a button that
\* decoded
C26_Witness ==
    /\ pc = "failed"
    /\ Actions_culprit
    /\ Len(Culprit.f.elements.xs) = 2
    /\ ~HasKey(Bad_element, "type")
    /\ ~HasKey(Bad_element, "action_id")
    /\ raised = ValueError("Element must have a type").err

\* the decoded text object has the kind and the string of the payload's
Text_decoded(text_data, text) ==
    /\ IsModel(text)
    /\ text.f.type = text_data.f.type
    /\ text.f.text = text_data.f.text

\* C27: a section with neither text nor fields nor accessory decodes, to a
\* Section with all three unset; a text that is there is decoded as a text
\* object, the entries of fields each as a text object, as many and in the
\* payload's order, and an accessory as an element.
C27_SectionDecode ==
    /\ (pc = "ready" /\ payload # Absent) =>
          \A i \in 1..Len(Entries) :
             Get(Entries[i], "type") = S("section") =>
                /\ self.blocks[i].cls = "Section"
                /\ IF HasKey(Entries[i], "text")
                   THEN Text_decoded(Entries[i].f.text, self.blocks[i].f.text)
                   ELSE self.blocks[i].f.text = None
                /\ IF HasKey(Entries[i], "fields")
                   THEN /\ IsList(self.blocks[i].f.fields)
                        /\ Len(self.blocks[i].f.fields.xs) = Len(Entries[i].f.fields.xs)
                        /\ \A j \in 1..Len(Entries[i].f.fields.xs) :
                              Text_decoded(Entries[i].f.fields.xs[j],
                                           self.blocks[i].f.fields.xs[j])
                   ELSE self.blocks[i].f.fields = None
                /\ IF HasKey(Entries[i], "accessory")
                   THEN /\ IsModel(self.blocks[i].f.accessory)
                        /\ self.blocks[i].f.accessory.f.type = Entries[i].f.accessory.f.type
                        /\ self.blocks[i].f.accessory.f.action_id
                              = Get(Entries[i].f.accessory, "action_id")
                   ELSE self.blocks[i].f.accessory = None
    /\ (First_defect > 0 /\ IsDict(Culprit) /\ Get(Culprit, "type") = S("section"))
          => DOMAIN Culprit.f \cap {"text", "fields", "accessory"} # {}

\* the section with nothing but its type, decoded
C27_Witness ==
    /\ pc = "ready"
    /\ Entries = <<SectionEmpty>>
    /\ self.blocks[1].f.text = None
    /\ self.blocks[1].f.fields = None
    /\ self.blocks[1].f.accessory = None

\* the elements list of a context block of the payload (empty when the key is
\* not there)
ContextElements(block_data) == GetDefault(block_data, "elements", L(<<>>)).xs

\* entry x of a context block is a text object by its type
IsTextEntry(x) == KindIn(Get(x, "type"), TextKinds)

\* the culprit is a context block over a list of dicts: the first of its
\* entries that does not decode
Context_culprit ==
    /\ First_defect > 0
    /\ IsDict(Culprit)
    /\ Get(Culprit, "type") = S("context")
    /\ DictList(GetDefault(Culprit, "elements", L(<<>>)))
Bad_context_entry ==
    LET xs == ContextElements(Culprit) IN
    xs[CHOOSE j \in 1..Len(xs) :
          /\ ~parse_context_element(xs[j]).ok
          /\ \A h \in 1..(j - 1) : parse_context_element(xs[h]).ok]

\* C28: in a decoded context block every entry of elements whose type is
\* plain_text or mrkdwn is a text object and every other entry an element,
\* as many and in the order of the payload's list (none when the block has no
\* elements key); a context block fails only on an entry that is malformed as
\* what its type makes it.
C28_ContextDecode ==
    /\ (pc = "ready" /\ payload # Absent) =>
          \A i \in 1..Len(Entries) :
             Get(Entries[i], "type") = S("context") =>
                /\ self.blocks[i].cls = "Context"
                /\ IsList(self.blocks[i].f.elements)
                /\ Len(self.blocks[i].f.elements.xs) = Len(ContextElements(Entries[i]))
                /\ \A j \in 1..Len(ContextElements(Entries[i])) :
                      /\ self.blocks[i].f.elements.xs[j].f.type
                            = ContextElements(Entries[i])[j].f.type
                      /\ IF IsTextEntry(ContextElements(Entries[i])[j])
                         THEN /\ self.blocks[i].f.elements.xs[j].cls
                                    \in {"PlainText", "MrkdwnText"}
                              /\ Text_decoded(ContextElements(Entries[i])[j],
                                              self.blocks[i].f.elements.xs[j])
                         ELSE self.blocks[i].f.elements.xs[j].cls
                                 \notin {"PlainText", "MrkdwnText"}
    /\ Context_culprit =>
          IF IsTextEntry(Bad_context_entry)
          THEN /\ ~TextOK(Bad_context_entry)
               /\ raised = ValueError("Text object must have type and text").err
          ELSE /\ raised.msg # "Text object must have type and text"
               /\ raised.msg # "Unsupported text type"

\* a context block of five entries, text objects and elements in turn
C28_Witness ==
    /\ pc = "ready"
    /\ Entries = <<ContextMany>>
    /\ Len(self.blocks[1].f.elements.xs) = 5
    /\ self.blocks[1].f.elements.xs[1].cls = "PlainText"
    /\ self.blocks[1].f.elements.xs[2].cls = "Image"
    /\ self.blocks[1].f.elements.xs[3].cls = "MrkdwnText"
    /\ self.blocks[1].f.elements.xs[4].cls = "Button"

\* ---------------------------------------------------------------------
\* C29: from_payload never returns a message above the ceiling.  A payload
\* with more than MAX_BLOCKS_PER_MESSAGE entries fails: with the error of
\* its first defective entry when one is defective (the entries before it
\* were decoded, none after), and otherwise with the block-count error,
\* raised only once every entry has been decoded.
Over_ceiling == Len(Entries) > MAX_BLOCKS_PER_MESSAGE

C29_CeilingAfterDecoding ==
    /\ (pc = "ready" /\ payload # Absent) =>
           /\ Len(self.blocks) <= MAX_BLOCKS_PER_MESSAGE
           /\ ~Over_ceiling
    /\ Over_ceiling =>
           /\ pc = "failed"
           /\ self = Absent
           /\ IF Defective # {}
              THEN /\ raised = parse_entry(Culprit).err
                   /\ Len(decoded) = First_defect - 1
              ELSE /\ raised = LimitExceeded("ValidationError", Len(Entries)).err
                   /\ decoded = [j \in 1..Len(Entries) |-> parse_entry(Entries[j]).v]

C29_Witness ==
    /\ Over_ceiling
    /\ Defective = {}
    /\ pc = "failed"
    /\ raised # NoError
    /\ raised.msg = "Number of blocks exceeds maximum"
    /\ Len(decoded) = MAX_BLOCKS_PER_MESSAGE + 1

\* ---------------------------------------------------------------------
\* C30: decoding is idempotent through the encoder.  For every payload P
\* that from_payload accepts, build(from_payload(P)) is accepted by
\* from_payload too and decodes to a message equal to from_payload(P).
Decodes_to_self(r) == r.ok /\ r.v = self

C30_DecodeIdempotent ==
    Built_from_payload => Decodes_to_self(from_payload(built))

C30_Witness ==
    /\ Built_from_payload
    /\ Len(self.blocks) > 0
    /\ built # Parsed_payload
    /\ Decodes_to_self(from_payload(built))

=============================================================================
